---------------------------- MODULE Spec2Model ----------------------------
(***************************************************************************)
(* A model of the yahoo_fantasy_api client: the League session object      *)
(* (league.py), the Player context derived from it (player.py) and the     *)
(* transport wrapper (yahoo_api.py).                                       *)
(*                                                                         *)
(* The session object is the record `self`, one field per attribute the    *)
(* source assigns; self.attrs is the set of attributes that exist on the   *)
(* object (Python raises AttributeError on a read of any other).  Every    *)
(* public method is one action: the whole call, nested calls included,     *)
(* is computed by an operator that returns the object after the call, the  *)
(* outcome ("ok" or the exception raised), the value returned and the      *)
(* remote requests issued, in order.                                       *)
(***************************************************************************)
EXTENDS Integers, Sequences, FiniteSets, TLC

VARIABLES
    self,     \* the session object (League / Player instance)
    remote,   \* the data held by the remote service
    last,     \* the last call: operation, argument, object before, outcome
    hist,     \* per operation and argument: first value returned, requests issued
    steps,    \* number of steps the behaviour may still take
    callers,  \* the callers that share the object: each one's place in its call
    loop      \* the local variables of a fetch loop that runs step by step

vars == <<self, remote, last, hist, steps, callers, loop>>

----------------------------------------------------------------------------
(* Bounds of the model *)

MaxOps == 4          \* steps per behaviour
MaxWeek == 4         \* weeks a caller asks for: 1..MaxWeek
NumCallers == 2      \* execution contexts that call into one session object
MaxFailAt == 1       \* a transport error can hit the k-th request, k <= MaxFailAt
MaxFrags == 3        \* entries of the description of a team: 1..MaxFrags
MaxPicks == 2        \* picks of a draft: 0..MaxPicks

----------------------------------------------------------------------------
(* Python values *)

\* None, and a value that is not None.  A list l that may be None is None or
\* Some(l), so that None and the empty list stay distinct.
None == << >>
Some(x) == << x >>
Val(o) == o[1]

EmptyDict == << >>

\* int(s) for a string of decimal digits, given as the sequence of its digits
RECURSIVE int(_)
int(ds) ==
    IF ds = << >> THEN 0
    ELSE 10 * int(SubSeq(ds, 1, Len(ds) - 1)) + ds[Len(ds)]

\* str(n) for n >= 0, as the sequence of its digits
RECURSIVE str(_)
str(n) ==
    IF n < 10 THEN << n >> ELSE Append(str(n \div 10), n % 10)

\* n written with at least w digits (the %02d of a wire date)
RECURSIVE zfill(_, _)
zfill(ds, w) == IF Len(ds) >= w THEN ds ELSE zfill(<< 0 >> \o ds, w)

----------------------------------------------------------------------------
(* datetime.date: a date is its proleptic Gregorian ordinal *)

IsLeap(y) == (y % 4 = 0) /\ ((y % 100 # 0) \/ (y % 400 = 0))

DaysInMonth(y, m) ==
    IF m = 2 THEN (IF IsLeap(y) THEN 29 ELSE 28)
    ELSE IF m \in {4, 6, 9, 11} THEN 30 ELSE 31

RECURSIVE DaysBeforeMonth(_, _)
DaysBeforeMonth(y, m) ==
    IF m = 1 THEN 0 ELSE DaysBeforeMonth(y, m - 1) + DaysInMonth(y, m - 1)

DaysBeforeYear(y) ==
    365 * (y - 1) + ((y - 1) \div 4) - ((y - 1) \div 100) + ((y - 1) \div 400)

\* datetime.date(y, m, d)
date(y, m, d) == DaysBeforeYear(y) + DaysBeforeMonth(y, m) + d

\* datetime.datetime.strptime(s, "%Y-%m-%d").date(); s is the wire string, given
\* as its three digit groups
strptime(s) == date(int(s[1]), int(s[2]), int(s[3]))

\* date + datetime.timedelta(days=n)
timedelta(d, n) == d + n

----------------------------------------------------------------------------
(* The remote service.  remote.rev counts the changes of the remote data,   *)
(* remote.week is the league's current week.                                *)

\* date.fromordinal(n), as << year, month, day >>
RECURSIVE YearOf(_, _)
YearOf(n, y) == IF n <= DaysBeforeYear(y + 1) THEN y ELSE YearOf(n, y + 1)

RECURSIVE MonthDayOf(_, _, _)
MonthDayOf(k, y, m) ==
    IF k <= DaysInMonth(y, m) THEN << m, k >>
    ELSE MonthDayOf(k - DaysInMonth(y, m), y, m + 1)

FirstYear == 2019

fromordinal(n) ==
    LET y == YearOf(n, FirstYear)
        md == MonthDayOf(n - DaysBeforeYear(y), y, 1)
    IN  << y, md[1], md[2] >>

\* the wire form "YYYY-MM-DD" of a date, as its three digit groups
WireDate(n) ==
    LET t == fromordinal(n)
    IN  << zfill(str(t[1]), 4), zfill(str(t[2]), 2), zfill(str(t[3]), 2) >>

\* first day of week 1 in the remote schedule; a change of the remote data
\* moves the schedule by a day
SeasonStart(rem) == date(FirstYear, 12, 16) + rem.rev

RemoteWeekStart(rem, w) == SeasonStart(rem) + 7 * (w - 1)
RemoteWeekEnd(rem, w) == RemoteWeekStart(rem, w) + 6
RemoteEndWeek(rem) == MaxWeek + rem.rev

\* league/{id}/scoreboard[;week={week}]: week is None for the current week
ScoreboardDoc(rem, week) ==
    LET w == IF week = None THEN rem.week ELSE Val(week)
    IN  [current_week |-> str(rem.week),
         end_week     |-> str(RemoteEndWeek(rem)),
         week_start   |-> WireDate(RemoteWeekStart(rem, w)),
         week_end     |-> WireDate(RemoteWeekEnd(rem, w))]

\* a text of the remote data that differs from one revision to the next
RevNames == << "r0", "r1", "r2", "r3", "r4", "r5", "r6", "r7", "r8", "r9" >>
RevText(rem) == RevNames[rem.rev + 1]

\* the stats of the league's stat categories: wire stat_id, display name,
\* position type; a stat only shown carries is_only_display_stat
RemoteStats(rem) ==
    << [stat |-> [stat_id |-> str(1), display_name |-> "G",
                  position_type |-> "P"]],
       [stat |-> [stat_id |-> str(2), display_name |-> RevText(rem),
                  position_type |-> "P"]],
       [stat |-> [stat_id |-> str(4), display_name |-> "+/-",
                  position_type |-> "P", is_only_display_stat |-> "1"]],
       [stat |-> [stat_id |-> str(19), display_name |-> "W",
                  position_type |-> "G"]] >>

RemoteRosterPositions(rem) ==
    << [roster_position |-> [position |-> "C", position_type |-> "P",
                             count |-> str(2 + rem.rev)]],
       [roster_position |-> [position |-> "LW", position_type |-> "P",
                             count |-> str(2)]],
       [roster_position |-> [position |-> "BN", count |-> str(4)]] >>

\* league/{id}/settings: the league's core fields, then its settings
SettingsDoc(rem) ==
    [fantasy_content |->
        [league |->
            << [league_key   |-> "398.l.10372",
                name         |-> RevText(rem),
                edit_key     |-> WireDate(SeasonStart(rem)),
                current_week |-> str(rem.week),
                game_code    |-> rem.game],
               [settings |->
                   << [draft_type       |-> "live",
                       scoring_type     |-> RevText(rem),
                       roster_positions |-> RemoteRosterPositions(rem),
                       stat_categories  |->
                           [stats |-> RemoteStats(rem)]] >>] >>]]

\* The remote player lists.  The service hands out a list in pages of
\* RemotePageSize players.  A roster scenario fixes the length of the lists
\* and which of their players have status NA; Short is the length of a list
\* shorter than a page.
RemotePageSize == 25
Short == 10

Scenarios ==
    << [n |-> 0,                      na |-> "none"],
       [n |-> Short,                  na |-> "none"],
       [n |-> RemotePageSize,         na |-> "none"],
       [n |-> RemotePageSize + Short, na |-> "none"],
       [n |-> RemotePageSize + Short, na |-> "some"],
       [n |-> RemotePageSize + Short, na |-> "page"] >>

Roster(rem) == Scenarios[rem.scn]

\* whether the i-th player of a list has status NA
IsNA(sc, i) ==
    \/ sc.na = "some" /\ i % 10 = 2
    \/ sc.na = "page" /\ i <= RemotePageSize

\* the IDs of the players of a list start above a base of the query
IdBase(status, position) ==
    IF status = "W" THEN 300
    ELSE IF status = "T" THEN 400
    ELSE IF position = Some("C") THEN 100 ELSE 200

\* the i-th player of the list of a query, as the service writes it: the
\* player's fields and, next to them, the ownership entries
WirePlayer(sc, status, position, i) ==
    LET id == IdBase(status, position) + i
        fields == [player_id |-> str(id),
                   name |-> [full |-> id],
                   position_type |-> "P",
                   eligible_positions |-> << [position |-> "C"],
                                             [position |-> "Util"] >>]
        withStatus ==
            IF IsNA(sc, i) THEN ("status" :> "NA") @@ fields
            ELSE IF i % 3 = 1 THEN ("status" :> "DTD") @@ fields
            ELSE fields
        owned == IF i % 4 = 0
                 THEN << [coverage_type |-> "date"] >>
                 ELSE << [coverage_type |-> "date"],
                         [value |-> (7 * i) % 101] >>
    IN  [fields |-> withStatus, percent_owned |-> owned]

Min(a, b) == IF a <= b THEN a ELSE b

\* league/{id}/players;status={status};position={position};start={start}
PlayersDoc(rem, start, status, position) ==
    LET sc == Roster(rem)
        k == IF start >= sc.n THEN 0 ELSE Min(RemotePageSize, sc.n - start)
        players ==
            IF k = 0 THEN << >>
            ELSE [count  |-> k,
                  player |-> [j \in 1 .. k |->
                                 WirePlayer(sc, status, position, start + j)]]
    IN  [fantasy_content |->
            [league |-> << [league_key |-> "398.l.10372"],
                           [players |-> players] >>]]

\* The players the service knows by ID: every ID but MissingId; a search by
\* name finds the players of SearchHits.
MissingId == 9
Exists(id) == id # MissingId

Searches == {"Phil", "Zed"}
SearchHits(search) ==
    IF search = "Phil" THEN << 1, 2 >>
    ELSE IF search = "Dan" THEN << 2, 3 >>
    ELSE << >>

\* a player as the player resource writes it: a list of one-key objects,
\* then an object
DetailPlayer(rem, id) ==
    << << [player_id |-> str(id)],
          [name |-> [full |-> RevText(rem)]],
          [position_type |-> "P"] >>,
       [percent_owned |-> (7 * id) % 101] >>

RECURSIVE ExistingOf(_)
ExistingOf(ids) ==
    IF ids = << >> THEN << >>
    ELSE (IF Exists(Head(ids)) THEN << Head(ids) >> ELSE << >>)
         \o ExistingOf(Tail(ids))

\* league/{id}/players;player_keys=... or ;search=...: the players found,
\* an empty list when there is none
PlayerDoc(rem, found) ==
    [fantasy_content |->
        [league |-> << [league_key |-> "398.l.10372"],
                       [players |->
                           IF found = << >> THEN << >>
                           ELSE [count  |-> Len(found),
                                 player |-> [j \in 1 .. Len(found) |->
                                                DetailPlayer(rem, found[j])]]]
                    >>]]

\* players/stats of a list of IDs: a row per player the service knows, in the
\* order asked; each row reports four stats, one of them with no number and
\* one that no table names.  A baseball player who bats and pitches also has
\* the runs he scored (stat 7) and the runs he allowed (stat 36).
TwoWayStats(rem) ==
    IF rem.game = "mlb"
    THEN << [stat |-> [stat_id |-> str(7), value |-> str(3)]],
            [stat |-> [stat_id |-> str(36), value |-> str(4)]] >>
    ELSE << >>

StatsPlayer(rem, id) ==
    [player_id |-> str(id),
     name |-> [full |-> RevText(rem)],
     position_type |-> "P",
     player_stats |->
         [stats |-> << [stat |-> [stat_id |-> str(1), value |-> str(id)]],
                       [stat |-> [stat_id |-> str(2), value |-> str(5)]],
                       [stat |-> [stat_id |-> str(15), value |-> << >>]],
                       [stat |-> [stat_id |-> str(99), value |-> str(1)]] >>
                    \o TwoWayStats(rem)]]

StatsDoc(rem, ids) ==
    LET found == ExistingOf(ids)
    IN  [fantasy_content |->
            [players |-> [j \in 1 .. Len(found) |->
                             StatsPlayer(rem, found[j])]]]

ErrorPayload == [error |-> "description"]

\* the response to the request that follows reqs: the error payload when it is
\* the fail-th request of the call (fail = 0: no request fails)
Respond(doc, reqs, fail) ==
    IF Len(reqs) + 1 = fail THEN ErrorPayload ELSE doc

----------------------------------------------------------------------------
(* Results of a call *)

\* a remote request: the API, its arguments and the accessor whose code issued it
Req(api, arg, by) == [api |-> api, arg |-> arg, by |-> by]

\* the key of a call: the method and its arguments
Key(op, arg) == << op, arg >>

Ok(s, v, reqs) == [self |-> s, out |-> "ok", ret |-> v, reqs |-> reqs]
Raise(s, exc, reqs) == [self |-> s, out |-> exc, ret |-> None, reqs |-> reqs]

\* reading an attribute the object does not have raises AttributeError
Missing(s, names) == names \ s.attrs # {}

RemoteAttrs == {"yhandler", "league_id"}

\* yahoo_api.get: a response holding an "error" key raises RuntimeError
get_raises(jresp) == "error" \in DOMAIN jresp

----------------------------------------------------------------------------
(* League: current week, end week, week date ranges *)

\* current_week that sends the request again when it got the error payload
Mut_current_week_retry(s, rem, fail, reqs) ==
    IF Missing(s, {"current_week_cache"}) THEN Raise(s, "AttributeError", reqs)
    ELSE IF s.current_week_cache = None THEN
        IF Missing(s, RemoteAttrs) THEN Raise(s, "AttributeError", reqs)
        ELSE
        LET first == Respond(ScoreboardDoc(rem, None), reqs, fail)
            req == Req("scoreboard", None, Key("current_week", << >>))
            reqs2 == IF get_raises(first) THEN reqs \o << req, req >>
                     ELSE Append(reqs, req)
            s2 == [s EXCEPT !.current_week_cache = Some(rem.week)]
        IN  Ok(s2, Val(s2.current_week_cache), reqs2)
    ELSE Ok(s, Val(s.current_week_cache), reqs)

current_week(s, rem, fail, reqs) ==
    IF Missing(s, {"current_week_cache"}) THEN Raise(s, "AttributeError", reqs)
    ELSE IF s.current_week_cache = None THEN
        IF Missing(s, RemoteAttrs) THEN Raise(s, "AttributeError", reqs)
        ELSE
        LET jresp == Respond(ScoreboardDoc(rem, None), reqs, fail)
            reqs2 == Append(reqs, Req("scoreboard", None, Key("current_week", << >>)))
        IN  IF get_raises(jresp) THEN Raise(s, "RuntimeError", reqs2)
            ELSE LET s2 == [s EXCEPT !.current_week_cache =
                                         Some(int(jresp.current_week))]
                 IN  Ok(s2, Val(s2.current_week_cache), reqs2)
    ELSE Ok(s, Val(s.current_week_cache), reqs)

end_week(s, rem, fail, reqs) ==
    IF Missing(s, {"end_week_cache"}) THEN Raise(s, "AttributeError", reqs)
    ELSE IF s.end_week_cache = None THEN
        IF Missing(s, RemoteAttrs) THEN Raise(s, "AttributeError", reqs)
        ELSE
        LET jresp == Respond(ScoreboardDoc(rem, None), reqs, fail)
            reqs2 == Append(reqs, Req("scoreboard", None, Key("end_week", << >>)))
        IN  IF get_raises(jresp) THEN Raise(s, "RuntimeError", reqs2)
            ELSE LET s2 == [s EXCEPT !.end_week_cache =
                                         Some(int(jresp.end_week))]
                 IN  Ok(s2, Val(s2.end_week_cache), reqs2)
    ELSE Ok(s, Val(s.end_week_cache), reqs)

\* variant: the week's range is fetched on every call, cached or not
Mut_date_range_refetch(s, rem, fail, reqs, week) ==
    IF Missing(s, {"week_date_range_cache"} \cup RemoteAttrs)
    THEN Raise(s, "AttributeError", reqs)
    ELSE
    LET jresp == Respond(ScoreboardDoc(rem, Some(week)), reqs, fail)
        reqs2 == Append(reqs, Req("scoreboard", Some(week),
                                   Key("week_date_range", << week >>)))
    IN  IF get_raises(jresp) THEN Raise(s, "RuntimeError", reqs2)
        ELSE LET rng == << strptime(jresp.week_start), strptime(jresp.week_end) >>
             IN  Ok([s EXCEPT !.week_date_range_cache = (week :> rng) @@ @],
                    rng, reqs2)

_date_range_of_played_or_current_week(s, rem, fail, reqs, week) ==
    IF Missing(s, {"week_date_range_cache"}) THEN Raise(s, "AttributeError", reqs)
    ELSE IF week \notin DOMAIN s.week_date_range_cache THEN
        IF Missing(s, RemoteAttrs) THEN Raise(s, "AttributeError", reqs)
        ELSE
        LET jresp == Respond(ScoreboardDoc(rem, Some(week)), reqs, fail)
            reqs2 == Append(reqs, Req("scoreboard", Some(week),
                                   Key("week_date_range", << week >>)))
        IN  IF get_raises(jresp) THEN Raise(s, "RuntimeError", reqs2)
            ELSE LET rng == << strptime(jresp.week_start),
                               strptime(jresp.week_end) >>
                     s2 == [s EXCEPT !.week_date_range_cache =
                                         (week :> rng) @@ @]
                 IN  Ok(s2, s2.week_date_range_cache[week], reqs2)
    ELSE Ok(s, s.week_date_range_cache[week], reqs)

\* the days added to the end of the current week for the week after it
NextWeekStartDays == 1
\* variant: the following week ends six days after the current one
Mut_NextWeekEndDays == 7 - 1
NextWeekEndDays == 7

\* variant: the week after the current one is fetched like a played week
Mut_week_date_range_fetch_next(s, rem, fail, week) ==
    LET c1 == current_week(s, rem, fail, << >>)
    IN  IF c1.out # "ok" THEN c1
        ELSE IF week <= c1.ret + 1 \/ week = 1 THEN
            _date_range_of_played_or_current_week(c1.self, rem, fail, c1.reqs, week)
        ELSE Raise(c1.self, "RuntimeError", c1.reqs)

\* variant: no limit on the week asked for
Mut_week_date_range_no_limit(s, rem, fail, week) ==
    LET c1 == current_week(s, rem, fail, << >>)
    IN  IF c1.out # "ok" THEN c1
        ELSE IF week <= c1.ret \/ week = 1 \/ week > c1.ret + 1 THEN
            _date_range_of_played_or_current_week(c1.self, rem, fail, c1.reqs, week)
        ELSE
            LET d == _date_range_of_played_or_current_week(
                         c1.self, rem, fail, c1.reqs, week - 1)
            IN  IF d.out # "ok" THEN d
                ELSE Ok(d.self,
                        << timedelta(d.ret[2], NextWeekStartDays),
                           timedelta(d.ret[2], NextWeekEndDays) >>,
                        d.reqs)

week_date_range(s, rem, fail, week) ==
    LET c1 == current_week(s, rem, fail, << >>)
    IN  IF c1.out # "ok" THEN c1
        ELSE IF week <= c1.ret \/ week = 1 THEN
            _date_range_of_played_or_current_week(c1.self, rem, fail, c1.reqs, week)
        ELSE
        LET c2 == current_week(c1.self, rem, fail, c1.reqs)
        IN  IF c2.out # "ok" THEN c2
            ELSE IF week = c2.ret + 1 THEN
                LET d == _date_range_of_played_or_current_week(
                             c2.self, rem, fail, c2.reqs, week - 1)
                IN  IF d.out # "ok" THEN d
                    ELSE Ok(d.self,
                            << timedelta(d.ret[2], NextWeekStartDays),
                               timedelta(d.ret[2], NextWeekEndDays) >>,
                            d.reqs)
            ELSE
            LET c3 == current_week(c2.self, rem, fail, c2.reqs)
            IN  IF c3.out # "ok" THEN c3
                ELSE Raise(c3.self, "RuntimeError", c3.reqs)

----------------------------------------------------------------------------
(* League: settings, stat categories, edit date, positions *)

\* a dict is a function from its keys; d[k] = v on a dict
SetItem(d, k, v) == (k :> v) @@ d

\* _merge_dicts that keeps the value a key already has in target
Mut_merge_dicts_keep_first(target, source, filter) ==
    [k \in DOMAIN target \cup (DOMAIN source \ filter) |->
        IF k \in DOMAIN target THEN target[k] ELSE source[k]]

\* _merge_dicts that takes no notice of filter
Mut_merge_dicts_no_filter(target, source, filter) ==
    [k \in DOMAIN target \cup DOMAIN source |->
        IF k \in DOMAIN source THEN source[k] ELSE target[k]]

\* _merge_dicts(target, source, filter): every key of source outside filter is
\* assigned in target
_merge_dicts(target, source, filter) ==
    [k \in DOMAIN target \cup (DOMAIN source \ filter) |->
        IF k \in DOMAIN source \ filter THEN source[k] ELSE target[k]]

SettingsFilter == {"roster_positions", "stat_categories"}

\* the league settings request of accessor `by`, the fail-th request failing
SettingsRequest(rem, fail, reqs, by) ==
    [jresp |-> Respond(SettingsDoc(rem), reqs, fail),
     reqs  |-> Append(reqs, Req("settings", << >>, by))]

\* the body of `if self.settings_cache is None` in settings
settings_fetch(s, rem, fail, reqs) ==
    IF Missing(s, RemoteAttrs) THEN Raise(s, "AttributeError", reqs)
    ELSE
    LET g == SettingsRequest(rem, fail, reqs, Key("settings", << >>))
        json == g.jresp
    IN  IF get_raises(json) THEN Raise(s, "RuntimeError", g.reqs)
        ELSE
        LET data ==
                IF "fantasy_content" \in DOMAIN json
                THEN LET content == json.fantasy_content
                     IN  IF "league" \in DOMAIN content
                         THEN _merge_dicts(
                                  _merge_dicts(EmptyDict,
                                               content.league[1], {}),
                                  content.league[2].settings[1],
                                  SettingsFilter)
                         ELSE EmptyDict
                ELSE EmptyDict
            s2 == [s EXCEPT !.settings_cache = Some(data)]
        IN  Ok(s2, Val(s2.settings_cache), g.reqs)

\* settings without the test of the cache
Mut_settings_refetch(s, rem, fail, reqs) ==
    IF Missing(s, {"settings_cache"}) THEN Raise(s, "AttributeError", reqs)
    ELSE settings_fetch(s, rem, fail, reqs)

settings(s, rem, fail, reqs) ==
    IF Missing(s, {"settings_cache"}) THEN Raise(s, "AttributeError", reqs)
    ELSE IF s.settings_cache = None THEN settings_fetch(s, rem, fail, reqs)
    ELSE Ok(s, Val(s.settings_cache), reqs)

\* $..stat_categories..stat
StatsOfDoc(json) ==
    LET stats == json.fantasy_content.league[2].settings[1].stat_categories.stats
    IN  [i \in 1 .. Len(stats) |-> stats[i].stat]

\* $..roster_position
RosterPositionsOfDoc(json) ==
    LET rp == json.fantasy_content.league[2].settings[1].roster_positions
    IN  [i \in 1 .. Len(rp) |-> rp[i].roster_position]

RECURSIVE SimpleStats(_)
SimpleStats(stats) ==
    IF stats = << >> THEN << >>
    ELSE LET st == Head(stats)
         IN  (IF "is_only_display_stat" \notin DOMAIN st
              THEN << [display_name |-> st.display_name,
                       position_type |-> st.position_type] >>
              ELSE << >>) \o SimpleStats(Tail(stats))

stat_categories(s, rem, fail, reqs) ==
    IF Missing(s, {"stat_categories_cache"}) THEN Raise(s, "AttributeError", reqs)
    ELSE IF s.stat_categories_cache = None THEN
        IF Missing(s, RemoteAttrs) THEN Raise(s, "AttributeError", reqs)
        ELSE
        LET g == SettingsRequest(rem, fail, reqs, Key("stat_categories", << >>))
        IN  IF get_raises(g.jresp) THEN Raise(s, "RuntimeError", g.reqs)
            ELSE
            LET simple_stat == SimpleStats(StatsOfDoc(g.jresp))
                s2 == [s EXCEPT !.stat_categories_cache = Some(simple_stat)]
            IN  Ok(s2, Val(s2.stat_categories_cache), g.reqs)
    ELSE Ok(s, Val(s.stat_categories_cache), reqs)

edit_date(s, rem, fail, reqs) ==
    IF Missing(s, {"edit_date_cache"}) THEN Raise(s, "AttributeError", reqs)
    ELSE IF s.edit_date_cache = None THEN
        IF Missing(s, RemoteAttrs) THEN Raise(s, "AttributeError", reqs)
        ELSE
        LET g == SettingsRequest(rem, fail, reqs, Key("edit_date", << >>))
        IN  IF get_raises(g.jresp) THEN Raise(s, "RuntimeError", g.reqs)
            ELSE
            LET edit_key == g.jresp.fantasy_content.league[1].edit_key
                s2 == [s EXCEPT !.edit_date_cache = Some(strptime(edit_key))]
            IN  Ok(s2, Val(s2.edit_date_cache), g.reqs)
    ELSE Ok(s, Val(s.edit_date_cache), reqs)

\* the dict positions() builds for one roster position
PositionEntry(p) ==
    [k \in DOMAIN p \ {"position"} |->
        IF k = "count" THEN int(p[k]) ELSE p[k]]

RECURSIVE PositionMap(_, _)
PositionMap(rps, pmap) ==
    IF rps = << >> THEN pmap
    ELSE PositionMap(Tail(rps),
                     SetItem(pmap, Head(rps).position, PositionEntry(Head(rps))))

positions(s, rem, fail, reqs) ==
    IF Missing(s, {"positions_cache"}) THEN Raise(s, "AttributeError", reqs)
    ELSE IF s.positions_cache = None THEN
        IF Missing(s, RemoteAttrs) THEN Raise(s, "AttributeError", reqs)
        ELSE
        LET g == SettingsRequest(rem, fail, reqs, Key("positions", << >>))
        IN  IF get_raises(g.jresp) THEN Raise(s, "RuntimeError", g.reqs)
            ELSE
            LET pmap == PositionMap(RosterPositionsOfDoc(g.jresp), EmptyDict)
                s2 == [s EXCEPT !.positions_cache = Some(pmap)]
            IN  Ok(s2, Val(s2.positions_cache), g.reqs)
    ELSE Ok(s, Val(s.positions_cache), reqs)

----------------------------------------------------------------------------
(* League: free agents, waivers, taken players *)

PLAYERS_PER_PAGE == 25

\* $..percent_owned.(coverage_type,value): the ownership entries of the page,
\* in order
RECURSIVE OwnershipEntries(_)
OwnershipEntries(player) ==
    IF player = << >> THEN << >>
    ELSE Head(player).percent_owned \o OwnershipEntries(Tail(player))

\* _pct_owned_from_page that makes a value only of the value entries
RECURSIVE Mut_pct_owned_values_only(_, _)
Mut_pct_owned_values_only(po_it, po) ==
    IF po_it = << >> THEN [out |-> "ok", po |-> po]
    ELSE Mut_pct_owned_values_only(
             Tail(po_it),
             IF "value" \in DOMAIN Head(po_it)
             THEN Append(po, Head(po_it).value) ELSE po)

\* _pct_owned_from_page: one value per coverage_type entry, 0 unless a value
\* entry follows it
RECURSIVE _pct_owned_from_page(_, _)
_pct_owned_from_page(po_it, po) ==
    IF po_it = << >> THEN [out |-> "ok", po |-> po]
    ELSE LET ele == Head(po_it)
             po1 == IF "coverage_type" \in DOMAIN ele THEN Append(po, 0) ELSE po
         IN  IF "value" \in DOMAIN ele
             THEN IF po1 = << >> THEN [out |-> "IndexError", po |-> po1]
                  ELSE _pct_owned_from_page(
                           Tail(po_it),
                           [po1 EXCEPT ![Len(po1)] = ele.value])
             ELSE _pct_owned_from_page(Tail(po_it), po1)

RECURSIVE PositionsOf(_)
PositionsOf(eligible) ==
    IF eligible = << >> THEN << >>
    ELSE << Head(eligible).position >> \o PositionsOf(Tail(eligible))

\* the record _players_from_page builds of a player's fields and its ownership
PlayerRecord(fields, pct_own) ==
    LET plyr == [k \in DOMAIN fields \cap
                       {"name", "player_id", "position_type", "status",
                        "eligible_positions"} |-> fields[k]]
        plyr2 == [plyr EXCEPT !.player_id = int(plyr.player_id),
                              !.name = plyr.name.full,
                              !.eligible_positions =
                                  PositionsOf(plyr.eligible_positions)]
        plyr3 == SetItem(plyr2, "percent_owned", pct_own)
    IN  IF "status" \notin DOMAIN plyr3 THEN SetItem(plyr3, "status", "")
        ELSE plyr3

\* the records of all the players of a page, those with status NA included
RECURSIVE Mut_ActivePlayers_keep_na(_, _, _, _)
Mut_ActivePlayers_keep_na(player, pct_owns, k, m) ==
    IF k > m THEN << >>
    ELSE << PlayerRecord(player[k].fields, pct_owns[k]) >>
         \o Mut_ActivePlayers_keep_na(player, pct_owns, k + 1, m)

RECURSIVE ActivePlayers(_, _, _, _)
ActivePlayers(player, pct_owns, k, m) ==
    IF k > m THEN << >>
    ELSE LET plyr == PlayerRecord(player[k].fields, pct_owns[k])
         IN  (IF plyr.status # "NA" THEN << plyr >> ELSE << >>)
             \o ActivePlayers(player, pct_owns, k + 1, m)

\* _players_from_page that reports a full page whatever the page holds
Mut_players_from_page_full_count(page) ==
    LET players == page.fantasy_content.league[2].players
    IN  IF DOMAIN players = {} THEN [out |-> "ok", num |-> 0, fa |-> << >>]
        ELSE
        LET pct == _pct_owned_from_page(OwnershipEntries(players.player), << >>)
            m == Min(players.count, Len(pct.po))
        IN  IF pct.out # "ok" THEN [out |-> pct.out, num |-> 0, fa |-> << >>]
            ELSE IF m = 0
            THEN [out |-> "UnboundLocalError", num |-> 0, fa |-> << >>]
            ELSE [out |-> "ok", num |-> PLAYERS_PER_PAGE,
                  fa |-> ActivePlayers(players.player, pct.po, 1, m)]

\* _players_from_page(page): the number of players on the page and the
\* players of it that are not NA
_players_from_page(page) ==
    LET players == page.fantasy_content.league[2].players
    IN  IF DOMAIN players = {} THEN [out |-> "ok", num |-> 0, fa |-> << >>]
        ELSE
        LET pct == _pct_owned_from_page(OwnershipEntries(players.player), << >>)
            m == Min(players.count, Len(pct.po))
        IN  IF pct.out # "ok" THEN [out |-> pct.out, num |-> 0, fa |-> << >>]
            ELSE IF m = 0
            THEN [out |-> "UnboundLocalError", num |-> 0, fa |-> << >>]
            ELSE [out |-> "ok", num |-> m,
                  fa |-> ActivePlayers(players.player, pct.po, 1, m)]

\* the loop of _fetch_players
RECURSIVE FetchLoop(_, _, _, _, _, _, _, _, _)
FetchLoop(s, rem, fail, reqs, status, position, by, plyrs, plyrIndex) ==
    IF plyrIndex % PLAYERS_PER_PAGE # 0 THEN Ok(s, plyrs, reqs)
    ELSE IF Missing(s, RemoteAttrs) THEN Raise(s, "AttributeError", reqs)
    ELSE
    LET j == Respond(PlayersDoc(rem, plyrIndex, status, position), reqs, fail)
        reqs2 == Append(reqs, Req("players",
                                   << plyrIndex, status, position >>, by))
    IN  IF get_raises(j) THEN Raise(s, "RuntimeError", reqs2)
        ELSE
        LET pg == _players_from_page(j)
        IN  IF pg.out # "ok" THEN Raise(s, pg.out, reqs2)
            ELSE IF Len(pg.fa) = 0 THEN Ok(s, plyrs, reqs2)
            ELSE FetchLoop(s, rem, fail, reqs2, status, position, by,
                           plyrs \o pg.fa, plyrIndex + pg.num)

\* _fetch_players that starts at the second page
Mut_fetch_players_skip_page(s, rem, fail, reqs, status, position, by) ==
    FetchLoop(s, rem, fail, reqs, status, position, by, << >>,
              PLAYERS_PER_PAGE)

\* _fetch_players whose loop goes on after a page of fewer players
RECURSIVE Mut_fetch_players_until_empty(_, _, _, _, _, _, _)
Mut_fetch_players_until_empty(s, rem, fail, reqs, status, position, by) ==
    LET first == FetchLoop(s, rem, fail, reqs, status, position, by, << >>, 0)
    IN  IF first.out = "ok" /\ Len(first.ret) % PLAYERS_PER_PAGE # 0
        THEN [first EXCEPT !.reqs = Append(@, Req("players",
                               << Len(first.ret), status, position >>, by))]
        ELSE first

_fetch_players(s, rem, fail, reqs, status, position, by) ==
    FetchLoop(s, rem, fail, reqs, status, position, by, << >>, 0)

\* free_agents that starts the cache anew with the position it fetched
Mut_free_agents_reset_cache(s, rem, fail, reqs, position) ==
    IF Missing(s, {"free_agent_cache"}) THEN Raise(s, "AttributeError", reqs)
    ELSE IF position \notin DOMAIN s.free_agent_cache THEN
        LET f == _fetch_players(s, rem, fail, reqs, "FA", Some(position),
                                Key("free_agents", << position >>))
        IN  IF f.out # "ok" THEN f
            ELSE LET s2 == [f.self EXCEPT !.free_agent_cache =
                                              SetItem(EmptyDict, position,
                                                      f.ret)]
                 IN  Ok(s2, s2.free_agent_cache[position], f.reqs)
    ELSE Ok(s, s.free_agent_cache[position], reqs)

\* free_agents that stores an empty list when the fetch raised
Mut_free_agents_store_on_error(s, rem, fail, reqs, position) ==
    IF Missing(s, {"free_agent_cache"}) THEN Raise(s, "AttributeError", reqs)
    ELSE IF position \notin DOMAIN s.free_agent_cache THEN
        LET f == _fetch_players(s, rem, fail, reqs, "FA", Some(position),
                                Key("free_agents", << position >>))
        IN  IF f.out # "ok"
            THEN [f EXCEPT !.self.free_agent_cache =
                               SetItem(@, position, << >>)]
            ELSE LET s2 == [f.self EXCEPT !.free_agent_cache =
                                              SetItem(@, position, f.ret)]
                 IN  Ok(s2, s2.free_agent_cache[position], f.reqs)
    ELSE Ok(s, s.free_agent_cache[position], reqs)

free_agents(s, rem, fail, reqs, position) ==
    IF Missing(s, {"free_agent_cache"}) THEN Raise(s, "AttributeError", reqs)
    ELSE IF position \notin DOMAIN s.free_agent_cache THEN
        LET f == _fetch_players(s, rem, fail, reqs, "FA", Some(position),
                                Key("free_agents", << position >>))
        IN  IF f.out # "ok" THEN f
            ELSE LET s2 == [f.self EXCEPT !.free_agent_cache =
                                              SetItem(@, position, f.ret)]
                 IN  Ok(s2, s2.free_agent_cache[position], f.reqs)
    ELSE Ok(s, s.free_agent_cache[position], reqs)

\* `not x` for x None or a list
Not(x) == x = None \/ Val(x) = << >>

waivers(s, rem, fail, reqs) ==
    IF Missing(s, {"waivers_cache"}) THEN Raise(s, "AttributeError", reqs)
    ELSE IF Not(s.waivers_cache) THEN
        LET f == _fetch_players(s, rem, fail, reqs, "W", None,
                                Key("waivers", << >>))
        IN  IF f.out # "ok" THEN f
            ELSE LET s2 == [f.self EXCEPT !.waivers_cache = Some(f.ret)]
                 IN  Ok(s2, Val(s2.waivers_cache), f.reqs)
    ELSE Ok(s, Val(s.waivers_cache), reqs)

taken_players(s, rem, fail, reqs) ==
    IF Missing(s, {"taken_players_cache"}) THEN Raise(s, "AttributeError", reqs)
    ELSE IF Not(s.taken_players_cache) THEN
        LET f == _fetch_players(s, rem, fail, reqs, "T", None,
                                Key("taken_players", << >>))
        IN  IF f.out # "ok" THEN f
            ELSE LET s2 == [f.self EXCEPT !.taken_players_cache = Some(f.ret)]
                 IN  Ok(s2, Val(s2.taken_players_cache), f.reqs)
    ELSE Ok(s, Val(s.taken_players_cache), reqs)

----------------------------------------------------------------------------
(* Player: player_details *)

\* the arguments of player_details: an int, a list of ints or a str
AnInt(n) == << "int", n >>
AList(ids) == << "list", ids >>
AStr(x) == << "str", x >>
TypeOf(player) == player[1]
ValueOf(player) == player[2]

BatchSize == 25

\* _parse_player_detail(plyr): the keys of every category of the player, a
\* category being a list of objects or an object
RECURSIVE MergeAll(_, _)
MergeAll(player_data, objects) ==
    IF objects = << >> THEN player_data
    ELSE MergeAll(_merge_dicts(player_data, Head(objects), {}), Tail(objects))

_parse_player_detail(plyr) ==
    MergeAll(MergeAll(EmptyDict, plyr[1]), Tail(plyr))

RECURSIVE Uncached(_, _)
Uncached(player, cache) ==
    IF player = << >> THEN << >>
    ELSE (IF Head(player) \notin DOMAIN cache THEN << Head(player) >>
          ELSE << >>)
         \o Uncached(Tail(player), cache)

\* the list to fetch as one batch, whatever its length
Mut_SplitList_whole(fetch_list) ==
    IF Len(fetch_list) = 0 THEN << >> ELSE << fetch_list >>

\* the loop of _calc_lookup_for_player_detail that splits the list to fetch,
\* from its end
RECURSIVE SplitList(_)
SplitList(fetch_list) ==
    IF Len(fetch_list) = 0 THEN << >>
    ELSE IF Len(fetch_list) > BatchSize
    THEN << SubSeq(fetch_list, Len(fetch_list) - BatchSize + 1,
                   Len(fetch_list)) >>
         \o SplitList(SubSeq(fetch_list, 1, Len(fetch_list) - BatchSize))
    ELSE << fetch_list >>

\* _calc_lookup_for_player_detail that runs a search again though the cache
\* holds it
Mut_calc_lookup_search_again(s, player) ==
    IF TypeOf(player) = "list"
    THEN SplitList(Uncached(ValueOf(player), s.player_details_cache.ids))
    ELSE Some(ValueOf(player))

\* _calc_lookup_for_player_detail with no look at the cache
Mut_calc_lookup_all(s, player) ==
    IF TypeOf(player) = "list" THEN SplitList(ValueOf(player))
    ELSE IF ValueOf(player) \in DOMAIN s.player_details_cache.search THEN None
    ELSE Some(ValueOf(player))

\* _calc_lookup_for_player_detail(player): the lists of IDs to fetch, or the
\* search to run (None when it is in the cache)
_calc_lookup_for_player_detail(s, player) ==
    IF TypeOf(player) = "list"
    THEN SplitList(Uncached(ValueOf(player), s.player_details_cache.ids))
    ELSE IF ValueOf(player) \in DOMAIN s.player_details_cache.search THEN None
    ELSE Some(ValueOf(player))

\* the players of the response, parsed
RECURSIVE ParsedPlayers(_)
ParsedPlayers(player) ==
    IF player = << >> THEN << >>
    ELSE << _parse_player_detail(Head(player)) >> \o ParsedPlayers(Tail(player))

DetailsOfDoc(json) ==
    LET players == json.fantasy_content.league[2].players
    IN  IF DOMAIN players = {} THEN << >>
        ELSE ParsedPlayers(SubSeq(players.player, 1, players.count))

RECURSIVE CacheById(_, _)
CacheById(cache, details) ==
    IF details = << >> THEN cache
    ELSE CacheById(SetItem(cache, int(Head(details).player_id), Head(details)),
                   Tail(details))

\* the loop of _cache_player_details for a list of IDs
RECURSIVE CacheLists(_, _, _, _, _, _)
CacheLists(s, rem, fail, reqs, lookup, by) ==
    IF Len(lookup) = 0 THEN Ok(s, None, reqs)
    ELSE IF Missing(s, RemoteAttrs) THEN Raise(s, "AttributeError", reqs)
    ELSE
    LET ids == lookup[Len(lookup)]
        j == Respond(PlayerDoc(rem, ExistingOf(ids)), reqs, fail)
        reqs2 == Append(reqs, Req("player", << "ids", ids >>, by))
    IN  IF get_raises(j) THEN Raise(s, "RuntimeError", reqs2)
        ELSE CacheLists(
                 [s EXCEPT !.player_details_cache.ids =
                               CacheById(@, DetailsOfDoc(j))],
                 rem, fail, reqs2, SubSeq(lookup, 1, Len(lookup) - 1), by)

\* _cache_player_details(player)
_cache_player_details(s, rem, fail, reqs, player, by) ==
    IF Missing(s, {"player_details_cache"})
    THEN Raise(s, "AttributeError", reqs)
    ELSE
    LET lookup == _calc_lookup_for_player_detail(s, player)
    IN  IF TypeOf(player) = "list"
        THEN CacheLists(s, rem, fail, reqs, lookup, by)
        ELSE IF lookup = None THEN Ok(s, None, reqs)
        ELSE IF Missing(s, RemoteAttrs) THEN Raise(s, "AttributeError", reqs)
        ELSE
        LET key == Val(lookup)
            j == Respond(PlayerDoc(rem, SearchHits(key)), reqs, fail)
            reqs2 == Append(reqs, Req("player", << "search", key >>, by))
        IN  IF get_raises(j) THEN Raise(s, "RuntimeError", reqs2)
            ELSE LET details == DetailsOfDoc(j)
                 IN  IF details = << >> THEN Ok(s, None, reqs2)
                     ELSE Ok([s EXCEPT !.player_details_cache.search =
                                           SetItem(@, key, details)],
                             None, reqs2)

RECURSIVE DetailsOf(_, _)
DetailsOf(player, cache) ==
    IF player = << >> THEN << >>
    ELSE << cache[Head(player)] >> \o DetailsOf(Tail(player), cache)

\* the details of the IDs of the list that the cache holds
RECURSIVE FoundOf(_, _)
FoundOf(player, cache) ==
    IF player = << >> THEN << >>
    ELSE (IF Head(player) \in DOMAIN cache THEN << cache[Head(player)] >>
          ELSE << >>) \o FoundOf(Tail(player), cache)

\* player_details that leaves out the IDs it does not find in the cache
Mut_player_details_skip_missing(s, rem, fail, reqs, player) ==
    LET list == IF TypeOf(player) = "int" THEN AList(<< ValueOf(player) >>)
                ELSE player
        c == _cache_player_details(s, rem, fail, reqs, list,
                                   Key("player_details", << player >>))
    IN  IF c.out # "ok" THEN c
        ELSE IF TypeOf(list) = "list"
        THEN Ok(c.self,
                FoundOf(ValueOf(list), c.self.player_details_cache.ids),
                c.reqs)
        ELSE IF ValueOf(list) \in DOMAIN c.self.player_details_cache.search
        THEN Ok(c.self, c.self.player_details_cache.search[ValueOf(list)], c.reqs)
        ELSE Ok(c.self, << >>, c.reqs)

\* player_details(player)
player_details(s, rem, fail, reqs, player) ==
    LET list == IF TypeOf(player) = "int" THEN AList(<< ValueOf(player) >>)
                ELSE player
        c == _cache_player_details(s, rem, fail, reqs, list,
                                   Key("player_details", << player >>))
    IN  IF c.out # "ok" THEN c
        ELSE IF TypeOf(list) = "list"
        THEN IF \E i \in 1 .. Len(ValueOf(list)) :
                    ValueOf(list)[i] \notin DOMAIN c.self.player_details_cache.ids
             THEN Raise(c.self, "KeyError", c.reqs)
             ELSE Ok(c.self,
                     DetailsOf(ValueOf(list), c.self.player_details_cache.ids),
                     c.reqs)
        ELSE IF ValueOf(list) \in DOMAIN c.self.player_details_cache.search
        THEN Ok(c.self, c.self.player_details_cache.search[ValueOf(list)], c.reqs)
        ELSE Ok(c.self, << >>, c.reqs)

----------------------------------------------------------------------------
(* Player: player_stats *)

_get_static_mlb_id_map ==
    (0 :> "G") @@ (2 :> "GS") @@ (3 :> "AVG") @@ (4 :> "OBP") @@
    (5 :> "SLG") @@ (6 :> "AB") @@ (7 :> "R") @@ (8 :> "H") @@ (9 :> "1B") @@
    (10 :> "2B") @@ (11 :> "3B") @@ (12 :> "HR") @@ (13 :> "RBI") @@
    (14 :> "SH") @@ (15 :> "SF") @@ (16 :> "SB") @@ (17 :> "CS") @@
    (18 :> "BB") @@ (19 :> "IBB") @@ (20 :> "HBP") @@ (21 :> "SO") @@
    (22 :> "GDP") @@ (23 :> "TB") @@ (25 :> "GS") @@ (26 :> "ERA") @@
    (27 :> "WHIP") @@ (28 :> "W") @@ (29 :> "L") @@ (32 :> "SV") @@
    (34 :> "H") @@ (35 :> "BF") @@ (36 :> "R") @@ (37 :> "ER") @@
    (38 :> "HR") @@ (39 :> "BB") @@ (40 :> "IBB") @@ (41 :> "HBP") @@
    (42 :> "K") @@ (43 :> "BK") @@ (44 :> "WP") @@ (48 :> "HLD") @@
    (50 :> "IP") @@ (51 :> "PO") @@ (52 :> "A") @@ (53 :> "E") @@
    (54 :> "FLD%") @@ (55 :> "OPS") @@ (56 :> "SO/W") @@ (57 :> "SO9") @@
    (65 :> "PA") @@ (84 :> "BS") @@ (85 :> "NSV") @@ (87 :> "DP") @@
    (1001 :> "CT%") @@ (1002 :> "ISO") @@ (1003 :> "SL") @@
    (1004 :> "P/PA") @@ (1005 :> "TOB") @@ (1006 :> "GB") @@
    (1007 :> "FB") @@ (1008 :> "GB/FB") @@ (1009 :> "GB%") @@
    (1010 :> "FB%") @@ (1011 :> "RC") @@ (1012 :> "GDPR") @@
    (1013 :> "BABIP") @@ (1014 :> "wOBA") @@ (1015 :> "wRAA") @@
    (1016 :> "OPS+") @@ (1017 :> "FR") @@ (1018 :> "P/IP") @@
    (1019 :> "P/S") @@ (1020 :> "GB/FB") @@ (1021 :> "GB%") @@
    (1022 :> "FB%") @@ (1024 :> "STR") @@ (1025 :> "IRS%") @@
    (1026 :> "RS") @@ (1027 :> "RS/9") @@ (1028 :> "AVG") @@
    (1029 :> "OBP") @@ (1030 :> "SLG") @@ (1031 :> "BABIP") @@
    (1032 :> "FIP") @@ (1033 :> "WAR") @@ (1034 :> "ERA-") @@
    (1035 :> "HR/FB%") @@ (1036 :> "HR/FB%") @@ (1037 :> "GB") @@
    (1038 :> "FB") @@ (1039 :> "SB%") @@ (1040 :> "bWAR") @@
    (1041 :> "brWAR") @@ (1042 :> "WAR")

_get_static_nhl_id_map ==
    (0 :> "GP") @@ (1 :> "G") @@ (2 :> "A") @@ (3 :> "PTS") @@
    (4 :> "+/-") @@ (5 :> "PIM") @@ (6 :> "PPG") @@ (7 :> "PPA") @@
    (8 :> "PPP") @@ (12 :> "GWG") @@ (14 :> "SOG") @@ (15 :> "S%") @@
    (18 :> "GS") @@ (19 :> "W") @@ (20 :> "L") @@ (22 :> "GA") @@
    (23 :> "GAA") @@ (24 :> "SA") @@ (25 :> "SV") @@ (26 :> "SV%") @@
    (27 :> "SHO") @@ (28 :> "MIN") @@ (1001 :> "PPT") @@
    (1002 :> "Avg-PPT") @@ (1003 :> "SHT") @@ (1004 :> "Avg-SHT") @@
    (1005 :> "COR") @@ (1006 :> "FEN") @@ (1007 :> "Off-ZS") @@
    (1008 :> "Def-ZS") @@ (1009 :> "ZS-Pct") @@ (1010 :> "GStr") @@
    (1011 :> "Shifts")

_get_static_id_map(game_code) ==
    IF game_code = "mlb" THEN _get_static_mlb_id_map
    ELSE IF game_code = "nhl" THEN _get_static_nhl_id_map
    ELSE EmptyDict

\* an overlay in which the static name wins over the league's
RECURSIVE Mut_OverlayStats_static_wins(_, _)
Mut_OverlayStats_static_wins(stats_id_map, stats) ==
    IF stats = << >> THEN stats_id_map
    ELSE Mut_OverlayStats_static_wins(
             IF int(Head(stats).stat_id) \in DOMAIN stats_id_map
             THEN stats_id_map
             ELSE SetItem(stats_id_map, int(Head(stats).stat_id),
                          Head(stats).display_name),
             Tail(stats))

RECURSIVE OverlayStats(_, _)
OverlayStats(stats_id_map, stats) ==
    IF stats = << >> THEN stats_id_map
    ELSE OverlayStats(SetItem(stats_id_map, int(Head(stats).stat_id),
                              Head(stats).display_name),
                      Tail(stats))

\* _cache_stats_id_map without the test of self.stats_id_map
Mut_cache_stats_id_map_rebuild(s, rem, fail, reqs, game_code) ==
    IF Missing(s, {"stats_id_map"} \cup RemoteAttrs)
    THEN Raise(s, "AttributeError", reqs)
    ELSE
    LET g == SettingsRequest(rem, fail, reqs,
                             Key("_cache_stats_id_map", << >>))
    IN  IF get_raises(g.jresp) THEN Raise(s, "RuntimeError", g.reqs)
        ELSE Ok([s EXCEPT !.stats_id_map =
                     Some(OverlayStats(_get_static_id_map(game_code),
                                       StatsOfDoc(g.jresp)))],
                None, g.reqs)

\* _cache_stats_id_map(game_code)
_cache_stats_id_map(s, rem, fail, reqs, game_code) ==
    IF Missing(s, {"stats_id_map"}) THEN Raise(s, "AttributeError", reqs)
    ELSE IF s.stats_id_map = None THEN
        IF Missing(s, RemoteAttrs) THEN Raise(s, "AttributeError", reqs)
        ELSE
        LET g == SettingsRequest(rem, fail, reqs,
                                 Key("_cache_stats_id_map", << >>))
        IN  IF get_raises(g.jresp) THEN Raise(s, "RuntimeError", g.reqs)
            ELSE Ok([s EXCEPT !.stats_id_map =
                         Some(OverlayStats(_get_static_id_map(game_code),
                                           StatsOfDoc(g.jresp)))],
                    None, g.reqs)
    ELSE Ok(s, None, reqs)

\* $..(full,player_id,position_type,stat): the entries of the response
RECURSIVE StatEntries(_)
StatEntries(players) ==
    IF players = << >> THEN << >>
    ELSE LET p == Head(players)
         IN  << [player_id |-> p.player_id], [full |-> p.name.full],
                [position_type |-> p.position_type] >>
             \o p.player_stats.stats \o StatEntries(Tail(players))

\* float(value) raises ValueError for a text that is no number
float_raises(value) == value = << >>
float(value) == int(value)

\* one iteration of the loop of _fetch_plyr_stats over the entries: acc holds
\* the finished rows and the row in the making
StatStep(acc, e, stats_id_map) ==
    IF "player_id" \in DOMAIN e
    THEN [stats |-> IF acc.row # None THEN Append(acc.stats, Val(acc.row))
                    ELSE acc.stats,
          row   |-> Some("player_id" :> int(e.player_id))]
    ELSE IF "full" \in DOMAIN e
    THEN [acc EXCEPT !.row = Some(SetItem(Val(@), "name", e.full))]
    ELSE IF "position_type" \in DOMAIN e
    THEN [acc EXCEPT !.row = Some(SetItem(Val(@), "position_type",
                                          e.position_type))]
    ELSE IF "stat" \in DOMAIN e
    THEN LET stat_id == int(e.stat.stat_id)
             val == IF float_raises(e.stat.value) THEN e.stat.value
                    ELSE float(e.stat.value)
         IN  IF stat_id \in DOMAIN stats_id_map
             THEN [acc EXCEPT !.row = Some(SetItem(Val(@),
                                                   stats_id_map[stat_id], val))]
             ELSE acc
    ELSE acc

\* the iterations over the entries, in order (the first half of them, then
\* the second half)
RECURSIVE StatLoop(_, _, _)
StatLoop(entries, acc, stats_id_map) ==
    IF Len(entries) = 0 THEN acc
    ELSE IF Len(entries) = 1 THEN StatStep(acc, entries[1], stats_id_map)
    ELSE LET h == Len(entries) \div 2
             half == StatLoop(SubSeq(entries, 1, h), acc, stats_id_map)
         IN  \* the test has the first half evaluated before the second
             IF Len(half.stats) >= 0
             THEN StatLoop(SubSeq(entries, h + 1, Len(entries)), half,
                           stats_id_map)
             ELSE half

\* the rows without the one in the making when the entries end
Mut_StatRows_last_lost(entries, stats_id_map) ==
    StatLoop(entries, [stats |-> << >>, row |-> None], stats_id_map).stats

\* the rows without the first one
Mut_StatRows_first_lost(entries, stats_id_map) ==
    LET acc == StatLoop(entries, [stats |-> << >>, row |-> None], stats_id_map)
        rows == IF acc.row # None THEN Append(acc.stats, Val(acc.row))
                ELSE acc.stats
    IN  IF rows = << >> THEN rows ELSE Tail(rows)

\* the rows _fetch_plyr_stats makes of the entries
StatRows(entries, stats_id_map) ==
    LET acc == StatLoop(entries, [stats |-> << >>, row |-> None], stats_id_map)
    IN  IF acc.row # None THEN Append(acc.stats, Val(acc.row)) ELSE acc.stats

\* the loop of player_stats over the chunks, _fetch_plyr_stats inlined
RECURSIVE StatChunks(_, _, _, _, _, _, _)
StatChunks(s, rem, fail, reqs, player_ids, stats, by) ==
    IF Len(player_ids) = 0 THEN Ok(s, stats, reqs)
    ELSE
    LET next_player_ids == SubSeq(player_ids, 1, Min(25, Len(player_ids)))
        rest == SubSeq(player_ids, Len(next_player_ids) + 1, Len(player_ids))
        j == Respond(StatsDoc(rem, next_player_ids), reqs, fail)
        reqs2 == Append(reqs, Req("player_stats", << next_player_ids >>, by))
    IN  IF Missing(s, {"yhandler"}) THEN Raise(s, "AttributeError", reqs)
        ELSE IF get_raises(j) THEN Raise(s, "RuntimeError", reqs2)
        ELSE StatChunks(s, rem, fail, reqs2, rest,
                        stats \o StatRows(StatEntries(j.fantasy_content.players),
                                          Val(s.stats_id_map)),
                        by)

\* player_stats(player_ids, req_type)
player_stats(s, rem, fail, reqs, player) ==
    LET player_ids == IF TypeOf(player) = "list" THEN ValueOf(player)
                      ELSE << ValueOf(player) >>
        lg == settings(s, rem, fail, reqs)
    IN  IF lg.out # "ok" THEN lg
        ELSE IF "game_code" \notin DOMAIN lg.ret
        THEN Raise(lg.self, "KeyError", lg.reqs)
        ELSE
        LET m == _cache_stats_id_map(lg.self, rem, fail, lg.reqs,
                                     lg.ret.game_code)
        IN  IF m.out # "ok" THEN m
            ELSE StatChunks(m.self, rem, fail, m.reqs, player_ids, << >>,
                            Key("player_stats", << player >>))

----------------------------------------------------------------------------
(* League: standings, teams *)

ADict(d) == << "dict", d >>

\* The standings document.  remote.teams lists the league's teams in the
\* order of the standings; a team is described by a list of entries, each a
\* dict of a few fields or an empty list, followed by its points and by its
\* place in the standings.
StandingsTeam(tm) ==
    [team |-> << AList(tm.info),
                 ADict([team_points |-> [total |-> "0"]]),
                 ADict([team_standings |-> tm.standings]) >>]

StandingsDoc(rem) ==
    [fantasy_content |->
        [league |->
            << [league_key |-> "398.l.10372"],
               [standings |->
                   << [teams |->
                          [count |-> str(Len(rem.teams)),
                           list  |-> [i \in DOMAIN rem.teams |->
                                         StandingsTeam(rem.teams[i])]]] >>] >>]]

StandingsRequest(rem, fail, reqs, by) ==
    [jresp |-> Respond(StandingsDoc(rem), reqs, fail),
     reqs  |-> Append(reqs, Req("standings", << >>, by))]

\* $..teams: the teams of the document; $..count[0]: their number
TeamsOfDoc(json) == json.fantasy_content.league[2].standings[1].teams

\* "key" in e, for an entry e that is a dict or a list
In(key, e) ==
    IF TypeOf(e) = "dict" THEN key \in DOMAIN ValueOf(e)
    ELSE \E i \in DOMAIN ValueOf(e) : ValueOf(e)[i] = key

\* the loop of standings() over the list of entries of a team
RECURSIVE StandingsInfo(_, _)
StandingsInfo(team, tds) ==
    IF tds = << >> THEN team
    ELSE LET td == Head(tds)
         IN  StandingsInfo(IF In("team_key", td) \/ In("name", td)
                           THEN _merge_dicts(team, ValueOf(td), {})
                           ELSE team,
                           Tail(tds))

\* the loop of standings() over $..teams.."i".team[0]
RECURSIVE StandingsTeamLoop(_, _)
StandingsTeamLoop(team, es) ==
    IF es = << >> THEN team
    ELSE LET e == Head(es)
         IN  StandingsTeamLoop(
                 IF TypeOf(e) = "list" THEN StandingsInfo(team, ValueOf(e))
                 ELSE IF In("team_standings", e)
                 THEN _merge_dicts(team, ValueOf(e).team_standings, {})
                 ELSE team,
                 Tail(es))

standings(s, rem, fail, reqs) ==
    IF Missing(s, RemoteAttrs) THEN Raise(s, "AttributeError", reqs)
    ELSE
    LET g == StandingsRequest(rem, fail, reqs, Key("standings", << >>))
    IN  IF get_raises(g.jresp) THEN Raise(s, "RuntimeError", g.reqs)
        ELSE
        LET t == TeamsOfDoc(g.jresp)
            num_teams == int(t.count)
        IN  Ok(s, [i \in 1 .. num_teams |->
                      StandingsTeamLoop(EmptyDict, t.list[i].team)],
               g.reqs)

\* the loop of teams() over $..teams.."i".team[0][0]: the key and the team
RECURSIVE TeamsLoop(_, _)
TeamsLoop(kt, es) ==
    IF es = << >> THEN kt
    ELSE LET e == Head(es)
         IN  TeamsLoop([key  |-> IF In("team_key", e)
                                 THEN Some(ValueOf(e).team_key)
                                 ELSE kt.key,
                        team |-> IF TypeOf(e) = "dict"
                                 THEN _merge_dicts(kt.team, ValueOf(e), {})
                                 ELSE kt.team],
                       Tail(es))

\* the loop of teams() over the teams: teams[key] = team, where key is None
\* or Some(team key)
RECURSIVE TeamsFold(_, _, _)
TeamsFold(teams, t, i) ==
    IF i > int(t.count) THEN teams
    ELSE LET kt == TeamsLoop([key |-> None, team |-> EmptyDict],
                             ValueOf(t.list[i].team[1]))
         IN  TeamsFold(SetItem(teams, kt.key, kt.team), t, i + 1)

teams(s, rem, fail, reqs) ==
    IF Missing(s, RemoteAttrs) THEN Raise(s, "AttributeError", reqs)
    ELSE
    LET g == StandingsRequest(rem, fail, reqs, Key("teams", << >>))
    IN  IF get_raises(g.jresp) THEN Raise(s, "RuntimeError", g.reqs)
        ELSE Ok(s, TeamsFold(EmptyDict, TeamsOfDoc(g.jresp), 1), g.reqs)

----------------------------------------------------------------------------
(* League: draft_results *)

\* A player key is a string, given as the sequence of its characters.
DigitChars == << "0", "1", "2", "3", "4", "5", "6", "7", "8", "9" >>
IsDigit(ch) == \E d \in DOMAIN DigitChars : DigitChars[d] = ch
DigitOf(ch) == (CHOOSE d \in DOMAIN DigitChars : DigitChars[d] = ch) - 1

\* the length of the longest run of [0-9] that ends at position end
RECURSIVE DigitRun(_, _)
DigitRun(pk, end) ==
    IF end >= 1 /\ IsDigit(pk[end]) THEN 1 + DigitRun(pk, end - 1) ELSE 0

\* the positions where $ matches: the end of the string and, when the string
\* ends with a newline, just before that newline
DollarEnds(pk) ==
    {Len(pk)} \cup (IF pk # << >> /\ pk[Len(pk)] = "\n"
                    THEN {Len(pk) - 1} ELSE {})

\* .*\.p\.([0-9]+)$ matched so that the group ends at position end: the
\* group is the run of digits before end, preceded by ".p."
MatchesAt(pk, end) ==
    LET n == DigitRun(pk, end)
    IN  /\ n >= 1
        /\ end - n >= 3
        /\ SubSeq(pk, end - n - 2, end - n) = << ".", "p", "." >>

\* re.compile(r'.*\.p\.([0-9]+)$').search(pk): None, or Some(group 1)
pat_search(pk) ==
    IF \E end \in DollarEnds(pk) : MatchesAt(pk, end)
    THEN LET end == CHOOSE end \in DollarEnds(pk) : MatchesAt(pk, end)
         IN  Some(SubSeq(pk, end - DigitRun(pk, end) + 1, end))
    ELSE None

\* int(m.group(1)) for a group of decimal digits
IntOfChars(cs) == int([i \in DOMAIN cs |-> DigitOf(cs[i])])

\* a draft result that keeps its player_key beside the player_id
Mut_DraftResult_keep_key(p) ==
    LET m == pat_search(p.player_key)
    IN  IF m # None
        THEN [k \in DOMAIN p \cup {"player_id"} |->
                 IF k = "player_id" THEN IntOfChars(Val(m)) ELSE p[k]]
        ELSE p

\* a draft result whose player_id is the number of digits of its key
Mut_DraftResult_count(p) ==
    LET m == pat_search(p.player_key)
    IN  IF m # None
        THEN [k \in (DOMAIN p \ {"player_key"}) \cup {"player_id"} |->
                 IF k = "player_id" THEN Len(Val(m)) ELSE p[k]]
        ELSE p

\* the body of the loop of draft_results over the draft results
DraftResult(p) ==
    LET m == pat_search(p.player_key)
    IN  IF m # None
        THEN [k \in (DOMAIN p \ {"player_key"}) \cup {"player_id"} |->
                 IF k = "player_id" THEN IntOfChars(Val(m)) ELSE p[k]]
        ELSE p

\* The draft results document: remote.draft lists the picks in the order of
\* the draft.
DraftDoc(rem) ==
    [fantasy_content |->
        [league |->
            << [league_key |-> "398.l.10372"],
               [draft_results |->
                   [count |-> str(Len(rem.draft)),
                    list  |-> [i \in DOMAIN rem.draft |->
                                  [draft_result |-> rem.draft[i]]]]] >>]]

\* $..draft_results..draft_result
DraftResultsOfDoc(json) ==
    LET l == json.fantasy_content.league[2].draft_results.list
    IN  [i \in DOMAIN l |-> l[i].draft_result]

draft_results(s, rem, fail, reqs) ==
    IF Missing(s, RemoteAttrs) THEN Raise(s, "AttributeError", reqs)
    ELSE
    LET j == Respond(DraftDoc(rem), reqs, fail)
        sent == Append(reqs, Req("draftresults", << >>,
                                 Key("draft_results", << >>)))
    IN  IF get_raises(j) THEN Raise(s, "RuntimeError", sent)
        ELSE LET ps == DraftResultsOfDoc(j)
             IN  Ok(s, [i \in DOMAIN ps |-> DraftResult(ps[i])], sent)

----------------------------------------------------------------------------
(* Construction *)

\* the attributes League.__init__ assigns
LeagueAttrs ==
    {"sc", "league_id", "yhandler", "current_week_cache", "end_week_cache",
     "week_date_range_cache", "free_agent_cache", "waivers_cache",
     "taken_players_cache", "stat_categories_cache", "settings_cache",
     "edit_date_cache", "positions_cache", "stats_id_map"}

\* the attributes Player.__init__ assigns (it does not call League.__init__)
PlayerAttrs == {"player", "player_details_cache"}

\* the object with no attribute yet; a field outside attrs is never read
Blank ==
    [attrs                 |-> {},
     current_week_cache    |-> None,
     end_week_cache        |-> None,
     week_date_range_cache |-> EmptyDict,
     free_agent_cache      |-> EmptyDict,
     waivers_cache         |-> None,
     taken_players_cache   |-> None,
     stat_categories_cache |-> None,
     settings_cache        |-> None,
     edit_date_cache       |-> None,
     positions_cache       |-> None,
     stats_id_map          |-> None,
     player_details_cache  |-> [ids |-> EmptyDict, search |-> EmptyDict]]

\* League.__init__(self, sc, league_id)
League__init__(s) ==
    [s EXCEPT !.attrs = @ \cup LeagueAttrs,
              !.current_week_cache = None,
              !.end_week_cache = None,
              !.week_date_range_cache = EmptyDict,
              !.free_agent_cache = EmptyDict,
              !.waivers_cache = None,
              !.taken_players_cache = None,
              !.stat_categories_cache = None,
              !.settings_cache = None,
              !.edit_date_cache = None,
              !.positions_cache = None,
              !.stats_id_map = None]

\* Player.__init__(self, player)
Player__init__(s) ==
    [s EXCEPT !.attrs = @ \cup PlayerAttrs,
              !.player_details_cache = [ids |-> EmptyDict, search |-> EmptyDict]]

\* The objects a session starts with: a Player context as its constructor
\* leaves it, and one on which the base initializer League.__init__ has run
\* as well (for the League methods, a League instance).
InitialObjects ==
    {Player__init__(Blank), League__init__(Player__init__(Blank))}

----------------------------------------------------------------------------
(* The state machine *)

\* Callers that share one session object.  A call of a cached accessor is
\* three steps of its caller: the test of the cache, the remote request (the
\* caller is suspended until the response is there) and the assignment of
\* the cache; steps of other callers can come in between.
Callers == 1 .. NumCallers
SharedAccessors == {"settings", "current_week"}

\* a test of the cache that finds it absent whatever it holds
Mut_CacheAbsent_always(s, acc) == TRUE

\* `if self.settings_cache is None` / `if self.current_week_cache is None`
CacheAbsent(s, acc) ==
    IF acc = "settings" THEN s.settings_cache = None
    ELSE s.current_week_cache = None

CachedValue(s, acc) ==
    IF acc = "settings" THEN Val(s.settings_cache)
    ELSE Val(s.current_week_cache)

\* the request of a caller that found the cache absent, and the value it
\* computes of the response
FetchFor(s, rem, acc) ==
    IF acc = "settings" THEN settings_fetch(s, rem, 0, << >>)
    ELSE current_week([s EXCEPT !.current_week_cache = None], rem, 0, << >>)

\* `self.settings_cache = data` / `self.current_week_cache = int(...)`
StoreValue(s, acc, v) ==
    IF acc = "settings" THEN [s EXCEPT !.settings_cache = Some(v)]
    ELSE [s EXCEPT !.current_week_cache = Some(v)]

CacheAttr(acc) ==
    IF acc = "settings" THEN "settings_cache" ELSE "current_week_cache"

Idle == [pc |-> "idle", acc |-> "none", val |-> None]
\* no caller is in a call; missed counts, per accessor, the callers that found
\* the cache absent; overlapped holds the accessors a caller entered while
\* another caller was in a call of it
NoCallers ==
    [pos |-> [t \in Callers |-> Idle],
     missed |-> [a \in SharedAccessors |-> 0],
     overlapped |-> {}]

InFlight(c, acc) ==
    \E u \in Callers : c.pos[u].acc = acc
                       /\ c.pos[u].pc \in {"fetching", "storing"}

NoCall == [op |-> "none", arg |-> << >>, pre |-> Blank, rem |-> << >>,
           seen |-> None, out |-> "ok", ret |-> None, reqs |-> << >>,
           err |-> 0]

NoHist == [first |-> EmptyDict, nreq |-> EmptyDict, failed |-> {}]

\* no loop is running.  A running loop holds its kind, the arguments of its
\* query, plyrIndex and plyrs collected so far, the pending lookup (batches of
\* IDs), the pending search, the pending player_ids and the stats collected
\* so far, the length of what was pending when the loop was entered, the
\* requests issued by the loop and the exception that ended it
NoLoop == [pc |-> "idle", kind |-> "none", status |-> "", position |-> None,
           plyrIndex |-> 0, plyrs |-> << >>, lookup |-> << >>,
           search |-> None, player_ids |-> << >>, stats |-> << >>,
           total |-> 0, nreq |-> 0, out |-> "ok"]

\* the value the first successful call with key k returned, None before it
FirstOf(h, k) == IF k \in DOMAIN h.first THEN Some(h.first[k]) ELSE None
\* whether a request of accessor k got the error payload
Failed(h, k) == k \in h.failed
\* the number of requests the code of accessor k has issued so far
IssuedBy(h, k) == IF k \in DOMAIN h.nreq THEN h.nreq[k] ELSE 0

RECURSIVE Count(_, _)
Count(reqs, k) ==
    IF reqs = << >> THEN 0
    ELSE (IF Head(reqs).by = k THEN 1 ELSE 0) + Count(Tail(reqs), k)

Issuers(reqs) == {reqs[i].by : i \in 1 .. Len(reqs)}

\* a call of method op with argument arg whose computation is r, the fail-th
\* request of it getting the error payload; track says whether the first value
\* returned is remembered in hist; last.err is the position in
\* last.reqs of the request that got the error payload, 0 when none did
Call(op, arg, fail, r, track) ==
    LET k == Key(op, arg)
        by == Issuers(r.reqs) \cup DOMAIN hist.nreq
    IN  /\ steps > 0
        /\ steps' = steps - 1
        /\ self' = r.self
        /\ last' = [op |-> op, arg |-> arg, pre |-> self, rem |-> remote,
                    seen |-> FirstOf(hist, k),
                    out |-> r.out, ret |-> r.ret, reqs |-> r.reqs,
                    err |-> IF fail \in 1 .. Len(r.reqs) THEN fail ELSE 0]
        /\ hist' = [first |-> IF track /\ r.out = "ok" /\ k \notin DOMAIN hist.first
                              THEN (k :> r.ret) @@ hist.first
                              ELSE hist.first,
                    nreq  |-> [b \in by |->
                                  IssuedBy(hist, b) + Count(r.reqs, b)],
                    failed |-> IF fail \in 1 .. Len(r.reqs)
                               THEN hist.failed \cup {r.reqs[fail].by}
                               ELSE hist.failed]
        /\ UNCHANGED <<remote, callers, loop>>

FailAt == 0 .. MaxFailAt
\* for a method that issues one request at most
FailFirst == 0 .. Min(MaxFailAt, 1)

CurrentWeek ==
    \E fail \in FailFirst :
        Call("current_week", << >>, fail,
             current_week(self, remote, fail, << >>), TRUE)

EndWeek ==
    \E fail \in FailFirst :
        Call("end_week", << >>, fail, end_week(self, remote, fail, << >>), TRUE)

WeekDateRange ==
    \E week \in 1 .. MaxWeek, fail \in FailAt :
        Call("week_date_range", << week >>, fail,
             week_date_range(self, remote, fail, week), TRUE)

Positions == {"C", "LW"}

Settings ==
    \E fail \in FailFirst :
        Call("settings", << >>, fail, settings(self, remote, fail, << >>), TRUE)

StatCategories ==
    \E fail \in FailFirst :
        Call("stat_categories", << >>, fail,
             stat_categories(self, remote, fail, << >>), TRUE)

EditDate ==
    \E fail \in FailFirst :
        Call("edit_date", << >>, fail, edit_date(self, remote, fail, << >>), TRUE)

PositionsCall ==
    \E fail \in FailFirst :
        Call("positions", << >>, fail, positions(self, remote, fail, << >>), TRUE)

FreeAgents ==
    \E position \in Positions, fail \in FailAt :
        Call("free_agents", << position >>, fail,
             free_agents(self, remote, fail, << >>, position), TRUE)

Waivers ==
    \E fail \in FailAt :
        Call("waivers", << >>, fail, waivers(self, remote, fail, << >>), TRUE)

TakenPlayers ==
    \E fail \in FailAt :
        Call("taken_players", << >>, fail,
             taken_players(self, remote, fail, << >>), TRUE)

\* the lists of IDs callers ask for: in and out of order, with a repeated
\* ID, with an ID the service does not know, and longer than a batch
IdRange(a, b) == [i \in 1 .. (b - a + 1) |-> a + i - 1]
LongList == IdRange(11, 11 + BatchSize)
RepeatList == Append(IdRange(11, 10 + BatchSize), 11)

DetailArgs ==
    {AnInt(3), AList(<< 2, 1 >>), AList(<< 1, 2, 3 >>), AList(<< 3, 3 >>),
     AList(<< 1, MissingId >>), AList(RepeatList)}
    \cup {AStr(x) : x \in Searches}

StatsArgs == {AnInt(3), AList(<< 3, 3 >>), AList(LongList)}

PlayerDetails ==
    \E player \in DetailArgs, fail \in FailAt :
        Call("player_details", << player >>, fail,
             player_details(self, remote, fail, << >>, player), TRUE)

PlayerStats ==
    \E player \in StatsArgs, fail \in FailAt :
        Call("player_stats", << player >>, fail,
             player_stats(self, remote, fail, << >>, player), FALSE)

\* lookups of lists of 1, 25, 26 and 51 IDs and of lists with an ID the
\* service does not know, and searches, two of which find players
ListOf(n) == IdRange(11, 10 + n)
DetailLists ==
    {ListOf(n) : n \in {1, BatchSize, BatchSize + 1, 2 * BatchSize + 1}}
    \cup {<< 1, MissingId >>}
StatsLists ==
    {ListOf(n) : n \in {BatchSize, BatchSize + 1, 2 * BatchSize + 1}}
    \cup {<< 1, MissingId >>, << MissingId >>}
MoreSearches == Searches \cup {"Dan"}

LookupDetails ==
    \E ids \in DetailLists :
        Call("player_details", << AList(ids) >>, 0,
             player_details(self, remote, 0, << >>, AList(ids)), TRUE)

LookupStats ==
    \E ids \in StatsLists :
        Call("player_stats", << AList(ids) >>, 0,
             player_stats(self, remote, 0, << >>, AList(ids)), FALSE)

LookupSearch ==
    \E x \in MoreSearches :
        Call("player_details", << AStr(x) >>, 0,
             player_details(self, remote, 0, << >>, AStr(x)), TRUE)

\* the remote data changes: every document differs from the one before, and
\* the player lists take the next roster scenario
RemoteChange ==
    /\ steps > 0
    /\ steps' = steps - 1
    /\ remote' = [remote EXCEPT !.rev = @ + 1,
                                !.scn = (@ % Len(Scenarios)) + 1]
    /\ last' = [NoCall EXCEPT !.op = "remote_change"]
    /\ UNCHANGED <<self, hist, callers, loop>>

\* the league moves on to its next week
WeekAdvance ==
    /\ steps > 0
    /\ steps' = steps - 1
    /\ remote.week < MaxWeek
    /\ remote' = [remote EXCEPT !.week = @ + 1]
    /\ last' = [NoCall EXCEPT !.op = "week_advance"]
    /\ UNCHANGED <<self, hist, callers, loop>>

\* a step of a caller: steps' and last' as for any step
CallerStep(op) ==
    /\ steps > 0
    /\ steps' = steps - 1
    /\ last' = [NoCall EXCEPT !.op = op]
    /\ UNCHANGED <<remote, loop>>

\* caller t enters accessor acc and tests the cache
Enter ==
    \E t \in Callers, acc \in SharedAccessors :
        /\ callers.pos[t].pc = "idle"
        /\ CallerStep("enter")
        /\ UNCHANGED <<self, hist>>
        /\ callers' =
              IF Missing(self, {CacheAttr(acc)} \cup RemoteAttrs)
              THEN [callers EXCEPT
                      !.pos[t] = [pc |-> "raised", acc |-> acc, val |-> None]]
              ELSE IF CacheAbsent(self, acc)
              THEN [callers EXCEPT
                      !.pos[t] = [pc |-> "fetching", acc |-> acc,
                                  val |-> None],
                      !.missed[acc] = @ + 1,
                      !.overlapped = IF InFlight(callers, acc)
                                     THEN @ \cup {acc} ELSE @]
              ELSE [callers EXCEPT
                      !.pos[t] = [pc |-> "returned", acc |-> acc,
                                  val |-> Some(CachedValue(self, acc))]]

\* the request of caller t is issued and answered
Fetch ==
    \E t \in Callers :
        /\ callers.pos[t].pc = "fetching"
        /\ CallerStep("fetch")
        /\ LET acc == callers.pos[t].acc
               r == FetchFor(self, remote, acc)
               k == Key(acc, << >>)
           IN  /\ callers' = [callers EXCEPT
                                !.pos[t] = [pc |-> "storing", acc |-> acc,
                                            val |-> Some(r.ret)]]
               /\ hist' = [hist EXCEPT
                             !.nreq = (k :> (IssuedBy(hist, k) + Len(r.reqs)))
                                      @@ @]
        /\ UNCHANGED self

\* caller t assigns the cache and returns what the cache holds
Store ==
    \E t \in Callers :
        /\ callers.pos[t].pc = "storing"
        /\ CallerStep("store")
        /\ LET acc == callers.pos[t].acc
               s2 == StoreValue(self, acc, Val(callers.pos[t].val))
           IN  /\ self' = s2
               /\ callers' = [callers EXCEPT
                                !.pos[t] = [pc |-> "returned", acc |-> acc,
                                            val |-> Some(CachedValue(s2, acc))]]
        /\ UNCHANGED hist

\* caller t is done with its call
Leave ==
    \E t \in Callers :
        /\ callers.pos[t].pc \in {"returned", "raised"}
        /\ CallerStep("leave")
        /\ callers' = [callers EXCEPT !.pos[t] = Idle]
        /\ UNCHANGED <<self, hist>>

InitRemote == {[rev |-> 0, week |-> w, game |-> "nhl", scn |-> 1] : w \in 0 .. 1}

InitWeek ==
    /\ self \in InitialObjects
    /\ remote \in InitRemote
    /\ last = NoCall
    /\ hist = NoHist
    /\ callers = NoCallers
    /\ loop = NoLoop
    /\ steps = MaxOps

NextWeek ==
    \/ CurrentWeek
    \/ EndWeek
    \/ WeekDateRange
    \/ RemoteChange
    \/ WeekAdvance

SpecWeek == InitWeek /\ [][NextWeek]_vars

\* the cached accessors of a league, over a remote whose data change
InitAcc ==
    /\ self \in InitialObjects
    /\ remote \in {[rev |-> 0, week |-> 1, game |-> "nhl", scn |-> n] :
                      n \in {3, 4}}
    /\ last = NoCall
    /\ hist = NoHist
    /\ callers = NoCallers
    /\ loop = NoLoop
    /\ steps = MaxOps - 1

NextAcc ==
    \/ Settings
    \/ StatCategories
    \/ PositionsCall
    \/ EditDate
    \/ CurrentWeek
    \/ EndWeek
    \/ FreeAgents
    \/ RemoteChange

SpecAcc == InitAcc /\ [][NextAcc]_vars

\* the page-based fetches, over remote lists that change
InitPage ==
    /\ self \in InitialObjects
    /\ remote \in {[rev |-> 0, week |-> 1, game |-> "nhl", scn |-> n] :
                      n \in {1, 4}}
    /\ last = NoCall
    /\ hist = NoHist
    /\ callers = NoCallers
    /\ loop = NoLoop
    /\ steps = MaxOps - 1

NextPage ==
    \/ FreeAgents
    \/ Waivers
    \/ TakenPlayers
    \/ RemoteChange

SpecPage == InitPage /\ [][NextPage]_vars

\* the player lookups, over remote data that change
InitPlayer ==
    /\ self \in InitialObjects
    /\ remote = [rev |-> 0, week |-> 1, game |-> "nhl", scn |-> 1]
    /\ last = NoCall
    /\ hist = NoHist
    /\ callers = NoCallers
    /\ loop = NoLoop
    /\ steps = MaxOps - 1

NextPlayer ==
    \/ PlayerDetails
    \/ PlayerStats
    \/ RemoteChange

SpecPlayer == InitPlayer /\ [][NextPlayer]_vars

\* lookups of long lists and searches, with no transport error
InitLookup ==
    /\ self \in InitialObjects
    /\ remote = [rev |-> 0, week |-> 1, game |-> "nhl", scn |-> 1]
    /\ last = NoCall
    /\ hist = NoHist
    /\ callers = NoCallers
    /\ loop = NoLoop
    /\ steps = MaxOps - 1

NextLookup ==
    \/ LookupDetails
    \/ LookupStats
    \/ LookupSearch
    \/ RemoteChange

SpecLookup == InitLookup /\ [][NextLookup]_vars

\* player_stats in leagues of three sports, two with a static table of stat
\* names and one without, with transport errors and remote changes
GameCodes == {"mlb", "nhl", "nfl"}

InitStats ==
    /\ self \in InitialObjects
    /\ \E g \in GameCodes :
           remote = [rev |-> 0, week |-> 1, game |-> g, scn |-> 1]
    /\ last = NoCall
    /\ hist = NoHist
    /\ callers = NoCallers
    /\ loop = NoLoop
    /\ steps = MaxOps - 1

NextStats ==
    \/ PlayerStats
    \/ RemoteChange

SpecStats == InitStats /\ [][NextStats]_vars

\* standings() and teams() on leagues whose teams are described by up to
\* MaxFrags entries; entries repeat the keys team_key and name with other
\* values, and the place in the standings may carry a name of its own
SeqsUpTo(S, n) == UNION {[1 .. k -> S] : k \in 0 .. n}

InfoEntries ==
    {ADict([team_key |-> "398.l.10372.t.1"]),
     ADict([team_key |-> "398.l.10372.t.2"]),
     ADict([name |-> "Lumber Kings"]),
     ADict([name |-> "Bashers", team_id |-> "1"]),
     ADict([url |-> "https://hockey.fantasysports.yahoo.com"]),
     AList(<< >>)}

TeamStandings == {[rank |-> "1"], [rank |-> "2", name |-> "Second"]}

OtherTeam ==
    [info      |-> << ADict([team_key |-> "398.l.10372.t.2"]),
                      ADict([name |-> "Bashers"]) >>,
     standings |-> [rank |-> "2"]]

TeamLists ==
    LET first == {[info      |-> << ADict([team_key |-> "398.l.10372.t.1"]) >>
                                    \o more,
                   standings |-> ts] :
                      more \in SeqsUpTo(InfoEntries, MaxFrags - 1),
                      ts \in TeamStandings}
    IN  {<< tm >> : tm \in first} \cup {<< tm, OtherTeam >> : tm \in first}

Standings ==
    \E fail \in FailFirst :
        Call("standings", << >>, fail, standings(self, remote, fail, << >>),
             FALSE)

Teams ==
    \E fail \in FailFirst :
        Call("teams", << >>, fail, teams(self, remote, fail, << >>), FALSE)

InitMerge ==
    /\ self \in InitialObjects
    /\ \E ts \in TeamLists :
           remote = [rev |-> 0, week |-> 1, game |-> "nhl", scn |-> 1,
                     teams |-> ts]
    /\ last = NoCall
    /\ hist = NoHist
    /\ callers = NoCallers
    /\ loop = NoLoop
    /\ steps = MaxOps - 1

NextMerge ==
    \/ Standings
    \/ Teams

SpecMerge == InitMerge /\ [][NextMerge]_vars

\* draft_results() on leagues with drafts of up to MaxPicks picks, of an
\* auction draft (with a cost) or not; the player keys are keys of players,
\* with one digit, several digits and leading zeros, and strings that are not
\* keys of players
PlayerKeys ==
    {<< "4", "0", "0", ".", "p", ".", "9", "4", "9", "0" >>,
     << "4", "0", "0", ".", "p", ".", "7" >>,
     << "4", "0", "0", ".", "p", ".", "0", "0", "1", "2" >>,
     << "4", "0", "0", ".", "p", "." >>,
     << "4", "0", "0", ".", "t", ".", "4" >>,
     << "4", "0", "0", ".", "p", ".", "1", "2", "a" >>,
     << "4", "0", "0", ".", "p", ".", "1", "2", "\n" >>}

PickDetails ==
    {[team_key |-> "388.l.27081.t.4", cost |-> "4"],
     [team_key |-> "388.l.27081.t.1"]}

Pick(i, d, pk) ==
    [k \in DOMAIN d \cup {"pick", "round", "player_key"} |->
        IF k = "pick" THEN i
        ELSE IF k = "round" THEN 1
        ELSE IF k = "player_key" THEN pk
        ELSE d[k]]

Drafts ==
    UNION {{[i \in 1 .. n |-> Pick(i, f[i][1], f[i][2])] :
               f \in [1 .. n -> PickDetails \X PlayerKeys]} :
           n \in 0 .. MaxPicks}

DraftResults ==
    \E fail \in FailFirst :
        Call("draft_results", << >>, fail,
             draft_results(self, remote, fail, << >>), FALSE)

InitDraft ==
    /\ self \in InitialObjects
    /\ \E d \in Drafts :
           remote = [rev |-> 0, week |-> 1, game |-> "nhl", scn |-> 1,
                     draft |-> d]
    /\ last = NoCall
    /\ hist = NoHist
    /\ callers = NoCallers
    /\ loop = NoLoop
    /\ steps = MaxOps - 1

NextDraft == DraftResults

SpecDraft == InitDraft /\ [][NextDraft]_vars

\* player_details for IDs of which one is unknown to the service, alone or
\* in a batch.  The service answers a request for IDs it does not know with a
\* document that leaves them out, or with an error payload (a transport
\* error of the call).
MissingArgs ==
    {AnInt(MissingId), AList(<< MissingId >>), AList(<< 1, MissingId >>),
     AList(<< MissingId, 1, 2 >>), AList(<< 1, 2 >>), AnInt(1)}

MissingDetails ==
    \E player \in MissingArgs, fail \in FailFirst :
        Call("player_details", << player >>, fail,
             player_details(self, remote, fail, << >>, player), TRUE)

InitMissing ==
    /\ self \in InitialObjects
    /\ remote = [rev |-> 0, week |-> 1, game |-> "nhl", scn |-> 1]
    /\ last = NoCall
    /\ hist = NoHist
    /\ callers = NoCallers
    /\ loop = NoLoop
    /\ steps = MaxOps - 1

NextMissing ==
    \/ MissingDetails
    \/ RemoteChange

SpecMissing == InitMissing /\ [][NextMissing]_vars

\* the methods of the object but player_stats (which SpecPlayer and SpecStats
\* call), each request of a call open to a transport error, on a league with
\* one team and a draft of one pick
AllOps == MaxOps - 2

InitAll ==
    /\ self \in InitialObjects
    /\ remote = [rev |-> 0, week |-> 1, game |-> "nhl", scn |-> 4,
                 teams |-> << OtherTeam >>,
                 draft |-> << Pick(1, [team_key |-> "388.l.27081.t.1"],
                                   << "4", "0", "0", ".", "p", ".", "7" >>) >>]
    /\ last = NoCall
    /\ hist = NoHist
    /\ callers = NoCallers
    /\ loop = NoLoop
    /\ steps = AllOps

NextAll ==
    \/ CurrentWeek
    \/ EndWeek
    \/ WeekDateRange
    \/ Settings
    \/ StatCategories
    \/ EditDate
    \/ PositionsCall
    \/ FreeAgents
    \/ Waivers
    \/ TakenPlayers
    \/ PlayerDetails
    \/ Standings
    \/ Teams
    \/ DraftResults
    \/ RemoteChange

SpecAll == InitAll /\ [][NextAll]_vars

\* callers that share the object, with no serialization between them
InitRace ==
    /\ self \in InitialObjects
    /\ remote = [rev |-> 0, week |-> 1, game |-> "nhl", scn |-> 1]
    /\ last = NoCall
    /\ hist = NoHist
    /\ callers = NoCallers
    /\ loop = NoLoop
    /\ steps = MaxOps + 1

NextRace ==
    \/ Enter
    \/ Fetch
    \/ Store
    \/ Leave
    \/ RemoteChange

SpecRace == InitRace /\ [][NextRace]_vars

----------------------------------------------------------------------------
(* Properties of the week date ranges (SpecWeek) *)

IsCall(op) == last.op = op
IsWeekCall == IsCall("week_date_range")
AskedWeek == last.arg[1]
\* the current week the session works with, once it is known
KnowsWeek == self.current_week_cache # None
SessionWeek == Val(self.current_week_cache)
CurrentWeekReq == Req("scoreboard", None, Key("current_week", << >>))
WeekReq(w) == Req("scoreboard", Some(w), Key("week_date_range", << w >>))

\* C5: for a week w <= current_week, every week_date_range(w) call after the
\* first one that returned gives the pair the first one gave and issues no
\* remote request, whatever happened in between (other calls, remote changes).
C5_WeekRangeStable ==
    (/\ IsWeekCall
     /\ last.out = "ok"
     /\ AskedWeek <= SessionWeek
     /\ last.seen # None)
    => /\ last.ret = Val(last.seen)
       /\ last.reqs = << >>

\* a repeated call for a played week that returns the first pair although the
\* remote schedule has changed since
C5_Witness ==
    /\ IsWeekCall
    /\ last.out = "ok"
    /\ AskedWeek <= SessionWeek
    /\ last.seen # None
    /\ last.ret # << RemoteWeekStart(last.rem, AskedWeek),
                     RemoteWeekEnd(last.rem, AskedWeek) >>

\* C6: for current week c >= 1, week_date_range(c + 1) is (end_c + 1 day,
\* end_c + 7 days) with end_c the end of week c as week_date_range(c) gives
\* it: seven days, starting the day after week c ends.
C6_NextWeekArithmetic ==
    (/\ IsWeekCall
     /\ last.out = "ok"
     /\ SessionWeek >= 1
     /\ AskedWeek = SessionWeek + 1)
    => LET end_c == week_date_range(self, remote, 0, SessionWeek).ret[2]
       IN  /\ SessionWeek \in DOMAIN self.week_date_range_cache
           /\ end_c = self.week_date_range_cache[SessionWeek][2]
           /\ last.ret = << end_c + 1, end_c + 7 >>
           /\ last.ret[2] - last.ret[1] + 1 = 7
           /\ fromordinal(last.ret[1]) = fromordinal(end_c + 1)

\* week_date_range(c + 1) has returned, for a week that starts in a new year
C6_Witness ==
    /\ IsWeekCall
    /\ last.out = "ok"
    /\ SessionWeek >= 1
    /\ AskedWeek = SessionWeek + 1
    /\ fromordinal(last.ret[1])[1] # fromordinal(last.ret[2])[1]

\* C7 as stated: a call week_date_range(current_week + 1) issues no remote
\* request, in every session state.
C7_AsStated ==
    (/\ IsWeekCall
     /\ KnowsWeek
     /\ AskedWeek = SessionWeek + 1)
    => last.reqs = << >>

\* C7 amended: for current week c >= 1, week_date_range(c + 1) never requests
\* week c + 1; it issues no request when the current week and the range of
\* week c are cached, and otherwise only the requests that fill these two
\* caches, at most one each.
C7_NextWeekRequests ==
    (/\ IsWeekCall
     /\ KnowsWeek
     /\ SessionWeek >= 1
     /\ AskedWeek = SessionWeek + 1)
    => /\ Len(last.reqs) <= 2
       /\ \A i \in 1 .. Len(last.reqs) :
              \/ /\ last.reqs[i] = CurrentWeekReq
                 /\ last.pre.current_week_cache = None
                 /\ i = 1
              \/ /\ last.reqs[i] = WeekReq(SessionWeek)
                 /\ SessionWeek \notin DOMAIN last.pre.week_date_range_cache
                 /\ i = Len(last.reqs)
       /\ (/\ last.pre.current_week_cache # None
           /\ SessionWeek \in DOMAIN last.pre.week_date_range_cache)
          => last.reqs = << >>

\* week_date_range(c + 1) returned without any request, and did so from caches
C7_Witness ==
    /\ IsWeekCall
    /\ last.out = "ok"
    /\ SessionWeek >= 1
    /\ AskedWeek = SessionWeek + 1
    /\ last.pre.current_week_cache # None
    /\ SessionWeek \in DOMAIN last.pre.week_date_range_cache
    /\ last.reqs = << >>

\* C8 as stated: week_date_range(w) with w > current_week + 1 and w # 1
\* raises an error and no remote request is issued before the error.
C8_AsStated ==
    (/\ IsWeekCall
     /\ KnowsWeek
     /\ AskedWeek > SessionWeek + 1
     /\ AskedWeek # 1)
    => /\ last.out # "ok"
       /\ last.reqs = << >>

\* C8 amended: week_date_range(w) with w > current_week + 1 and w # 1 raises
\* RuntimeError and stores no date range; it issues no request when the
\* current week is cached, and otherwise exactly the one request that reads
\* the current week.
C8_TooFarRaises ==
    (/\ IsWeekCall
     /\ KnowsWeek
     /\ AskedWeek > SessionWeek + 1
     /\ AskedWeek # 1)
    => /\ last.out = "RuntimeError"
       /\ self.week_date_range_cache = last.pre.week_date_range_cache
       /\ last.pre.current_week_cache # None => last.reqs = << >>
       /\ last.pre.current_week_cache = None => last.reqs = << CurrentWeekReq >>

\* the error raised with the current week cached, and with it not yet cached
C8_Witness ==
    /\ IsWeekCall
    /\ KnowsWeek
    /\ AskedWeek > SessionWeek + 1
    /\ AskedWeek # 1
    /\ last.out = "RuntimeError"
    /\ last.pre.current_week_cache # None
    /\ last.reqs = << >>

----------------------------------------------------------------------------
(* Properties of the cached accessors (SpecAcc) *)

ScalarAccessors ==
    {Key(op, << >>) : op \in {"settings", "stat_categories", "positions",
                              "edit_date", "current_week", "end_week"}}
FreeAgentAccessors == {Key("free_agents", << p >>) : p \in Positions}
LastKey == Key(last.op, last.arg)
\* accessor k has returned and none of its requests got an error
Served(k) == FirstOf(hist, k) # None /\ ~Failed(hist, k)
\* the last step was a call of accessor k that returned after an earlier call
\* of it had returned
Repeated(k) == LastKey = k /\ last.out = "ok" /\ last.seen # None

C9_ScalarWitness ==
    /\ Repeated(Key("settings", << >>))
    /\ Served(Key("settings", << >>))
    /\ last.ret.name # RevText(remote)

----------------------------------------------------------------------------
(* Properties of the page-based fetch (SpecPage) *)

PageCalls == {"free_agents", "waivers", "taken_players"}
\* the status and the position of the list the last call asks for
LastStatus ==
    IF last.op = "free_agents" THEN "FA"
    ELSE IF last.op = "waivers" THEN "W" ELSE "T"
LastPosition == IF last.op = "free_agents" THEN Some(last.arg[1]) ELSE None
\* the last step was a page-based call that fetched and returned
Fetched == last.op \in PageCalls /\ last.out = "ok" /\ last.reqs # << >>
\* the page the remote served for the i-th request of the last call
ServedPage(i) ==
    PlayersDoc(last.rem, last.reqs[i].arg[1], LastStatus, LastPosition)
\* the number of players that page reports, and the records it yields
Reported(i) ==
    LET players == ServedPage(i).fantasy_content.league[2].players
    IN  IF DOMAIN players = {} THEN 0 ELSE players.count
Yielded(i) == Len(_players_from_page(ServedPage(i)).fa)
RECURSIVE SumReported(_)
SumReported(i) == IF i = 0 THEN 0 ELSE Reported(i) + SumReported(i - 1)

\* C2: a fetch over a remote list of N players, none of them NA, returns N
\* records, the players of the list in remote order; a list of 25 + Short
\* players takes exactly two requests.
C2_AllRecords ==
    (Fetched /\ Roster(last.rem).na = "none") =>
        /\ Len(last.ret) = Roster(last.rem).n
        /\ \A i \in 1 .. Len(last.ret) :
              last.ret[i].player_id = IdBase(LastStatus, LastPosition) + i
        /\ (Roster(last.rem).n = RemotePageSize + Short)
               => Len(last.reqs) = 2

\* a first page of 25 and a second page of Short players were fetched
C2_Witness ==
    /\ Fetched
    /\ Roster(last.rem).na = "none"
    /\ Reported(1) = 25
    /\ Len(last.reqs) = 2
    /\ Reported(2) = Short
    /\ Len(last.ret) = 25 + Short

\* C3 as stated: the fetch stops only after a page that yields zero records.
C3_AsStated ==
    Fetched => Yielded(Len(last.reqs)) = 0

\* C3: the fetch stops after a page that yields zero records or after a page
\* that takes the offset off the multiples of 25 (a page reporting fewer than
\* 25 players ends the fetch); until then each request is issued at the
\* offset advanced by the exact counts of the pages before it.
C3_StopRule ==
    Fetched =>
        /\ \A i \in 1 .. Len(last.reqs) :
              /\ last.reqs[i].arg[1] = SumReported(i - 1)
              /\ last.reqs[i].arg[1] % PLAYERS_PER_PAGE = 0
              /\ i < Len(last.reqs) => Yielded(i) > 0
        /\ \/ Yielded(Len(last.reqs)) = 0
           \/ SumReported(Len(last.reqs)) % PLAYERS_PER_PAGE # 0

\* a fetch ended after a page of Short players, with no further request
C3_Witness ==
    /\ Fetched
    /\ Reported(Len(last.reqs)) = Short
    /\ Yielded(Len(last.reqs)) = Short
    /\ Len(last.ret) = Roster(last.rem).n

\* a fetch ended after a page that yields zero records
C3_WitnessEmpty ==
    /\ Fetched
    /\ Len(last.reqs) = 2
    /\ Yielded(2) = 0

\* the last step was a lookup of players by a search string
IsSearch == IsCall("player_details") /\ TypeOf(last.arg[1]) = "str"

\* C10 as stated: when the first fetch of a list (free agents of a position,
\* waivers, taken players, players found by a search string) resolved to zero
\* results, a repeated identical request returns the empty list and issues no
\* request.
C10_AsStated ==
    (/\ last.op \in PageCalls \/ IsSearch
     /\ last.seen = Some(<< >>)
     /\ last.out = "ok") =>
        last.ret = << >> /\ last.reqs = << >>

\* no player comes twice in the list a page-based fetch returns
PagesDistinct ==
    Fetched =>
        \A i, j \in 1 .. Len(last.ret) :
            last.ret[i].player_id = last.ret[j].player_id => i = j

----------------------------------------------------------------------------
(* Properties of the player lookups (SpecPlayer) *)

\* the last step was player_details of an ID or of a list of IDs
IsDetailsById == IsCall("player_details") /\ TypeOf(last.arg[1]) # "str"
\* the IDs it asked for, and those of them the cache held when it was called
AskedIds ==
    IF TypeOf(last.arg[1]) = "list" THEN ValueOf(last.arg[1])
    ELSE << ValueOf(last.arg[1]) >>
CachedBefore == DOMAIN last.pre.player_details_cache.ids
\* the IDs the requests of the last call carried, in the order sent
RECURSIVE IdsOf(_)
IdsOf(reqs) ==
    IF reqs = << >> THEN << >>
    ELSE (IF Head(reqs).api = "player_stats" THEN Head(reqs).arg[1]
          ELSE IF Head(reqs).api = "player" /\ Head(reqs).arg[1] = "ids"
          THEN Head(reqs).arg[2]
          ELSE << >>)
         \o IdsOf(Tail(reqs))
SentIds == IdsOf(last.reqs)
Occurrences(seq, x) == Cardinality({i \in 1 .. Len(seq) : seq[i] = x})
Elements(seq) == {seq[i] : i \in 1 .. Len(seq)}

\* C1: player_details of a list of IDs sends only IDs of the list that the
\* cache did not hold (no request at all when it held them all), sends every
\* such ID when no request fails, and returns the cached details of the IDs
\* in the order of the list.
C1_OnlyUncachedInOrder ==
    IsDetailsById =>
        /\ \A r \in Elements(last.reqs) :
              r.api = "player" /\ r.arg[1] = "ids"
        /\ Elements(SentIds) \subseteq Elements(AskedIds) \ CachedBefore
        /\ (Elements(AskedIds) \subseteq CachedBefore) => last.reqs = << >>
        /\ last.out \in {"ok", "KeyError"} =>
              Elements(SentIds) = Elements(AskedIds) \ CachedBefore
        /\ last.out = "ok" =>
              /\ Len(last.ret) = Len(AskedIds)
              /\ \A i \in 1 .. Len(AskedIds) :
                    /\ int(last.ret[i].player_id) = AskedIds[i]
                    /\ last.ret[i] =
                           self.player_details_cache.ids[AskedIds[i]]

\* [1, 2, 3] is asked for with 1 and 2 in the cache: one request, of 3 only,
\* and the details of 1, 2, 3 in this order
C1_Witness ==
    /\ IsDetailsById
    /\ AskedIds = << 1, 2, 3 >>
    /\ CachedBefore = {1, 2}
    /\ Len(last.reqs) = 1
    /\ SentIds = << 3 >>
    /\ last.out = "ok"
    /\ Len(last.ret) = 3

\* every ID of the list is in the cache: no request
C1_WitnessAllCached ==
    /\ IsDetailsById
    /\ Len(AskedIds) > 1
    /\ Elements(AskedIds) \subseteq CachedBefore
    /\ last.out = "ok"
    /\ last.reqs = << >>

\* C4 as stated: within one call of player_details or of player_stats no
\* player ID is sent to the service more than once, be it in one batch or in
\* two, and no player comes twice in the merged pages of a page-based fetch.
C4_AsStated ==
    /\ (IsCall("player_details") \/ IsCall("player_stats")) =>
           \A id \in Elements(SentIds) : Occurrences(SentIds, id) = 1
    /\ PagesDistinct

\* the part of C4 on the two batches of a list longer than one batch
NoIdInTwoBatches ==
    IsDetailsById =>
        \A a, b \in 1 .. Len(last.reqs) :
            a # b => Elements(last.reqs[a].arg[2])
                         \cap Elements(last.reqs[b].arg[2]) = {}

----------------------------------------------------------------------------
(* Properties of callers that share the object (SpecRace) *)

\* the callers whose call of acc is at position pc
At(acc, pc) ==
    {t \in Callers : callers.pos[t].acc = acc /\ callers.pos[t].pc = pc}
RequestsFor(acc) == IssuedBy(hist, Key(acc, << >>))

\* C11 as stated: however the calls of the callers interleave, at most one
\* remote request is issued for the value of a single-shot accessor.
C11_AsStated ==
    \A acc \in SharedAccessors : RequestsFor(acc) <= 1

\* C11: every caller that finds the cache absent issues its own request, so
\* the requests issued for a value are as many as the callers that found it
\* absent and have been answered; they are at most one as long as no caller
\* entered the accessor while another caller was in a call of it.
C11_OnePerMiss ==
    \A acc \in SharedAccessors :
        /\ RequestsFor(acc) =
               callers.missed[acc] - Cardinality(At(acc, "fetching"))
        /\ acc \notin callers.overlapped => RequestsFor(acc) <= 1

\* two callers were in calls of settings one after the other: the first one
\* made the request, the second one got the cached value
C11_Witness ==
    /\ "settings" \notin callers.overlapped
    /\ callers.missed["settings"] = 1
    /\ RequestsFor("settings") = 1
    /\ Cardinality(At("settings", "returned")) = 2

\* two callers found the cache of settings absent and both made the request
C11_WitnessRace ==
    /\ "settings" \in callers.overlapped
    /\ RequestsFor("settings") = 2

----------------------------------------------------------------------------
(* Properties of the batches (SpecLookup) *)

IsStats == IsCall("player_stats")
IsBatch(r) ==
    r.api = "player_stats" \/ (r.api = "player" /\ r.arg[1] = "ids")
Batches == SelectSeq(last.reqs, IsBatch)
BatchIds(r) == IF r.api = "player_stats" THEN r.arg[1] ELSE r.arg[2]
\* the IDs the last call has to fetch: for player_stats every ID asked for,
\* for player_details those the cache did not hold
RECURSIVE Without(_, _)
Without(seq, set) ==
    IF seq = << >> THEN << >>
    ELSE (IF Head(seq) \in set THEN << >> ELSE << Head(seq) >>)
         \o Without(Tail(seq), set)
ToFetch == IF IsStats THEN AskedIds ELSE Without(AskedIds, CachedBefore)
CeilDiv(k, n) == (k + n - 1) \div n

\* C12: every request of player_details (by ID list) and of player_stats
\* carries 1 to 25 IDs; when the call got through all its batches, each ID
\* to fetch is carried by a request as often as it is to fetch, and K IDs
\* to fetch took ceil(K / 25) requests.
C12_BatchesOf25 ==
    (IsDetailsById \/ IsStats) =>
        /\ \A i \in 1 .. Len(Batches) :
              Len(BatchIds(Batches[i])) \in 1 .. 25
        /\ last.out \in {"ok", "KeyError"} =>
              /\ \A id \in Elements(ToFetch) \cup Elements(SentIds) :
                    Occurrences(SentIds, id) = Occurrences(ToFetch, id)
              /\ Len(Batches) = CeilDiv(Len(ToFetch), 25)

\* 51 IDs were asked of player_details with 25 of them in the cache: the 26
\* others went out in two requests
C12_Witness ==
    /\ IsDetailsById
    /\ last.out = "ok"
    /\ Len(AskedIds) = 2 * BatchSize + 1
    /\ Len(ToFetch) = BatchSize + 1
    /\ Len(Batches) = 2

\* player_stats of 51 IDs took three requests
C12_WitnessStats ==
    /\ IsStats
    /\ last.out = "ok"
    /\ Len(ToFetch) = 51
    /\ Len(Batches) = 3

----------------------------------------------------------------------------
(* Properties of the rows of player_stats (SpecLookup) *)

\* the IDs asked for that the service knows, in the order asked
KnownAsked == SelectSeq(AskedIds, Exists)
RowIds == [k \in 1 .. Len(last.ret) |-> last.ret[k].player_id]

----------------------------------------------------------------------------
(* Properties of the searches (SpecLookup) *)

SearchCache == self.player_details_cache.search
SearchedFor == ValueOf(last.arg[1])
\* what a search for x found when the remote data were at revision rev
FoundAt(x, rev) ==
    DetailsOfDoc(PlayerDoc([remote EXCEPT !.rev = rev], SearchHits(x)))

\* C14: a search whose string is in the cache returns the list cached under
\* that string and issues no request; the list cached under a string is what
\* one search for that very string found, whatever other searches and ID
\* lookups the session made.
C14_SearchCache ==
    /\ (IsSearch /\ SearchedFor \in DOMAIN last.pre.player_details_cache.search)
           => /\ last.out = "ok"
              /\ last.reqs = << >>
              /\ last.ret = last.pre.player_details_cache.search[SearchedFor]
    /\ \A x \in DOMAIN SearchCache :
          /\ x \in MoreSearches
          /\ \E rev \in 0 .. remote.rev : SearchCache[x] = FoundAt(x, rev)

\* a search is answered from the cache while the cache also holds another
\* search and players looked up by ID
C14_Witness ==
    /\ IsSearch
    /\ SearchedFor \in DOMAIN last.pre.player_details_cache.search
    /\ last.reqs = << >>
    /\ Len(last.ret) = 2
    /\ \/ Cardinality(DOMAIN SearchCache) = 2
       \/ DOMAIN self.player_details_cache.ids # {}

----------------------------------------------------------------------------
(* Properties of the stat-ID map (SpecStats) *)

HasMap(s) == "stats_id_map" \in s.attrs /\ s.stats_id_map # None
\* the league's stat categories at revision rev: stat ID to display name
LeagueNames(rev) ==
    LET stats == RemoteStats([remote EXCEPT !.rev = rev])
        ids == {int(stats[i].stat.stat_id) : i \in DOMAIN stats}
    IN  [id \in ids |->
            LET i == CHOOSE i \in DOMAIN stats :
                         int(stats[i].stat.stat_id) = id
            IN  stats[i].stat.display_name]
StaticNames == _get_static_id_map(remote.game)
IsOverlay(m, static, league) ==
    /\ DOMAIN m = DOMAIN static \cup DOMAIN league
    /\ \A id \in DOMAIN m :
          m[id] = IF id \in DOMAIN league THEN league[id] ELSE static[id]

\* C15: the stat-ID map of the object, once built, is the static table of the
\* league's sport overlaid with the league's stat categories as they were at
\* some revision: an ID in both has the league's name, an ID only in the
\* static table has the static name, and for a sport other than mlb and nhl
\* the map holds exactly the league's categories.
C15_StaticOverlaidByLeague ==
    HasMap(self) =>
        \E rev \in 0 .. remote.rev :
            /\ IsOverlay(Val(self.stats_id_map), StaticNames, LeagueNames(rev))
            /\ remote.game \notin {"mlb", "nhl"}
                   => Val(self.stats_id_map) = LeagueNames(rev)

\* the map of a league of a sport with a static table holds an ID found in
\* both under the league's name and an ID found only in the static table
C15_Witness ==
    /\ HasMap(self)
    /\ remote.game = "mlb"
    /\ \E id \in DOMAIN StaticNames \cap DOMAIN LeagueNames(0) :
          /\ StaticNames[id] # LeagueNames(0)[id]
          /\ Val(self.stats_id_map)[id] = LeagueNames(0)[id]
    /\ \E id \in DOMAIN StaticNames \ DOMAIN LeagueNames(0) :
          Val(self.stats_id_map)[id] = StaticNames[id]

\* the map of a league of a sport with no static table
C15_WitnessNoTable ==
    /\ HasMap(self)
    /\ remote.game = "nfl"
    /\ DOMAIN Val(self.stats_id_map) = {1, 2, 4, 19}

MapRequests(reqs) ==
    {i \in DOMAIN reqs : reqs[i].by = Key("_cache_stats_id_map", << >>)}

\* C16: a player_stats call on an object that holds a stat-ID map issues no
\* request for the map and leaves the map as it was, whatever the remote
\* settings have become; the request for the map is issued only by a call
\* that found no map.
C16_MapBuiltOnce ==
    IsStats =>
        /\ HasMap(last.pre)
               => /\ MapRequests(last.reqs) = {}
                  /\ HasMap(self)
                  /\ self.stats_id_map = last.pre.stats_id_map
        /\ Cardinality(MapRequests(last.reqs)) <= 1

\* a player_stats call returns rows on an object whose map was built from
\* settings that the remote service has changed since
C16_Witness ==
    /\ IsStats
    /\ HasMap(last.pre)
    /\ last.out = "ok"
    /\ last.ret # << >>
    /\ last.rem.rev > 0
    /\ Val(last.pre.stats_id_map)[2] # RevText(last.rem)

----------------------------------------------------------------------------
(* Properties of the merge of fragments (SpecMerge, SpecAcc) *)

\* the dicts among the entries of the first team, in order
RECURSIVE Dicts(_)
Dicts(es) ==
    IF es = << >> THEN << >>
    ELSE (IF TypeOf(Head(es)) = "dict" THEN << ValueOf(Head(es)) >>
          ELSE << >>) \o Dicts(Tail(es))
FirstTeamFragments == Dicts(last.rem.teams[1].info)
Suppliers(frags, k) == {i \in DOMAIN frags : k \in DOMAIN frags[i]}
Least(S) == CHOOSE i \in S : \A j \in S : i <= j
Greatest(S) == CHOOSE i \in S : \A j \in S : j <= i
\* the key teams() files the first team under: its last team_key
FirstTeamKey ==
    Some(FirstTeamFragments[Greatest(Suppliers(FirstTeamFragments,
                                               "team_key"))].team_key)
FirstTeamOf(ret) == IF IsCall("teams") THEN ret[FirstTeamKey] ELSE ret[1]
\* the record of the first team is in the result: in the dict of teams() no
\* other team took its key
FirstTeamKept ==
    IsCall("teams") =>
        \A i \in 2 .. Len(last.rem.teams) :
            LET ds == Dicts(last.rem.teams[i].info)
            IN  Some(ds[Greatest(Suppliers(ds, "team_key"))].team_key)
                    # FirstTeamKey
\* the fragments folded into the record of the first team
Folded ==
    IF IsCall("teams") THEN FirstTeamFragments
    ELSE SelectSeq(FirstTeamFragments,
                   LAMBDA d : "team_key" \in DOMAIN d \/ "name" \in DOMAIN d)
         \o << last.rem.teams[1].standings >>
IsFold == (IsCall("teams") \/ IsCall("standings")) /\ last.out = "ok"
C17_WitnessStandings ==
    /\ IsFold
    /\ IsCall("standings")
    /\ Len(last.rem.teams) = 2
    /\ Cardinality(Suppliers(Folded, "name")) > 1
    /\ last.ret[1].name = "Second"

\* the two fragments of the settings document at revision rev
CoreFragment(rev) ==
    SettingsDoc([last.rem EXCEPT !.rev = rev]).fantasy_content.league[1]
SettingsFragment(rev) ==
    SettingsDoc([last.rem EXCEPT !.rev = rev]).fantasy_content.league[2]
        .settings[1]
Suppressed == {"roster_positions", "stat_categories"}

\* C18: settings() returns the core fields of the league merged with the
\* fields of its settings fragment other than roster_positions and
\* stat_categories: the keys of the result are the keys of the core fragment
\* and the other keys of the settings fragment, each with the value of its
\* fragment, and the result has neither suppressed key.
C18_SettingsMerged ==
    (IsCall("settings") /\ last.out = "ok") =>
        \E rev \in 0 .. last.rem.rev :
            LET core == CoreFragment(rev)
                frag == SettingsFragment(rev)
            IN  /\ DOMAIN last.ret = DOMAIN core \cup (DOMAIN frag \ Suppressed)
                /\ \A k \in DOMAIN frag \ Suppressed : last.ret[k] = frag[k]
                /\ \A k \in DOMAIN core \ DOMAIN frag : last.ret[k] = core[k]
                /\ Suppressed \cap DOMAIN last.ret = {}

\* settings() fetches a document whose settings fragment holds the two
\* suppressed keys and others
C18_Witness ==
    /\ IsCall("settings")
    /\ last.out = "ok"
    /\ last.reqs # << >>
    /\ Suppressed \subseteq DOMAIN SettingsFragment(last.rem.rev)
    /\ {"draft_type", "scoring_type", "name", "game_code"}
           \subseteq DOMAIN last.ret

----------------------------------------------------------------------------
(* Properties of the draft results (SpecDraft) *)

\* the positions i of pk such that pk is <game>.p.<digits> with the digits
\* starting at i
DigitsFrom(pk) ==
    {i \in 4 .. Len(pk) :
        /\ SubSeq(pk, i - 3, i - 1) = << ".", "p", "." >>
        /\ \A j \in i .. Len(pk) : IsDigit(pk[j])}
\* the value of the decimal number written by the characters of pk from i on
RECURSIVE Decimal(_, _, _)
Decimal(pk, i, acc) ==
    IF i > Len(pk) THEN acc
    ELSE Decimal(pk, i + 1, 10 * acc + DigitOf(pk[i]))
IsDraft == IsCall("draft_results") /\ last.out = "ok"

\* C19: draft_results returns one record per draft result of the remote
\* service, in its order; the record of a draft result whose player_key is
\* <game>.p.<digits> has player_id, the integer the digits write, has no
\* player_key, and has every other field of the draft result unchanged.
C19_PlayerIdFromKey ==
    IsDraft =>
        /\ Len(last.ret) = Len(last.rem.draft)
        /\ \A i \in DOMAIN last.rem.draft :
              LET p == last.rem.draft[i]
                  out == last.ret[i]
              IN  DigitsFrom(p.player_key) # {} =>
                      /\ DOMAIN out =
                             (DOMAIN p \ {"player_key"}) \cup {"player_id"}
                      /\ \E d \in DigitsFrom(p.player_key) :
                             out.player_id = Decimal(p.player_key, d, 0)
                      /\ \A k \in DOMAIN p \ {"player_key"} : out[k] = p[k]

\* the draft results of two picks whose keys are 400.p.9490 and a key with
\* leading zeros, one pick with a cost
C19_Witness ==
    /\ IsDraft
    /\ Len(last.ret) = 2
    /\ \A i \in 1 .. 2 : "player_id" \in DOMAIN last.ret[i]
    /\ last.ret[1].player_id = 9490
    /\ last.ret[2].player_id = 12
    /\ "cost" \in DOMAIN last.ret[1]
    /\ "cost" \notin DOMAIN last.ret[2]
    /\ last.ret[1].pick = 1 /\ last.ret[2].pick = 2

----------------------------------------------------------------------------
(* Properties of lookups of unknown IDs (SpecMissing) *)

Answered == last.out \notin {"RuntimeError", "AttributeError"}
AsksMissing == \E i \in DOMAIN AskedIds : ~Exists(AskedIds[i])

\* C21 as stated: player_details for a list of several IDs, one of which the
\* response leaves out, raises nothing and returns the details of the IDs
\* found.
C21_AsStated ==
    (IsDetailsById /\ Len(AskedIds) > 1 /\ AsksMissing /\ Answered) =>
        /\ last.out = "ok"
        /\ Len(last.ret) = Len(ExistingOf(AskedIds))

\* C22: player_details for a single ID the service does not know raises an
\* error, whether the service answers with an error payload or with a
\* document without the player, and the cache gets no entry for the ID.
C22_SingleMissingRaises ==
    /\ (IsDetailsById /\ AskedIds = << MissingId >>) => last.out # "ok"
    /\ "player_details_cache" \in self.attrs
           => MissingId \notin DOMAIN self.player_details_cache.ids

\* the single unknown ID is asked for on an object that holds other players,
\* and the service answers with a document
C22_Witness ==
    /\ IsDetailsById
    /\ AskedIds = << MissingId >>
    /\ last.reqs # << >>
    /\ last.out = "KeyError"
    /\ DOMAIN self.player_details_cache.ids # {}

\* the service answers the request for the single unknown ID with an error
\* payload
C22_WitnessError ==
    /\ IsDetailsById
    /\ AskedIds = << MissingId >>
    /\ last.out = "RuntimeError"

----------------------------------------------------------------------------
(* Properties of transport errors (SpecAll) *)

Methods ==
    {"current_week", "end_week", "week_date_range", "settings",
     "stat_categories", "edit_date", "positions", "free_agents", "waivers",
     "taken_players", "player_details", "player_stats", "standings", "teams",
     "draft_results"}

\* C23: when a request of a call gets a response with an "error" key, the
\* call raises RuntimeError and returns nothing; the request is the last one
\* the call issues, and the code that issued it has sent it once.
C23_ErrorPropagates ==
    (last.op \in Methods /\ last.err > 0) =>
        /\ last.out = "RuntimeError"
        /\ last.ret = None
        /\ Len(last.reqs) = last.err
        /\ \A i \in 1 .. last.err - 1 : last.reqs[i] # last.reqs[last.err]

\* the request of free_agents gets the error payload on an object whose
\* settings are cached
C23_Witness ==
    /\ IsCall("free_agents")
    /\ last.err = 1
    /\ last.out = "RuntimeError"
    /\ last.pre.settings_cache # None

\* the request of an accessor nested in player_stats gets the error payload
\* (SpecPlayer, SpecStats)
C23_WitnessNested ==
    /\ IsCall("player_stats")
    /\ last.err = 1
    /\ last.reqs[1].by = Key("settings", << >>)
    /\ last.out = "RuntimeError"

----------------------------------------------------------------------------
(* Properties of the caches over a session (SpecPage, SpecAll) *)

\* every value object state s holds in a cache is held by state t
KeptScalars(s, t) ==
    /\ s.current_week_cache # None
           => t.current_week_cache = s.current_week_cache
    /\ s.end_week_cache # None => t.end_week_cache = s.end_week_cache
    /\ s.settings_cache # None => t.settings_cache = s.settings_cache
    /\ s.stat_categories_cache # None
           => t.stat_categories_cache = s.stat_categories_cache
    /\ s.edit_date_cache # None => t.edit_date_cache = s.edit_date_cache
    /\ s.positions_cache # None => t.positions_cache = s.positions_cache
    /\ s.stats_id_map # None => t.stats_id_map = s.stats_id_map
KeptLists(s, t) ==
    /\ s.waivers_cache # None => t.waivers_cache = s.waivers_cache
    /\ s.taken_players_cache # None
           => t.taken_players_cache = s.taken_players_cache
KeptIn(c, d) == \A k \in DOMAIN c : k \in DOMAIN d /\ d[k] = c[k]
KeptDicts(s, t) ==
    /\ KeptIn(s.week_date_range_cache, t.week_date_range_cache)
    /\ KeptIn(s.free_agent_cache, t.free_agent_cache)
    /\ KeptIn(s.player_details_cache.ids, t.player_details_cache.ids)
    /\ KeptIn(s.player_details_cache.search, t.player_details_cache.search)

\* C24 as stated: a value stored in any cache of the object is still there,
\* unchanged, after every later call.
C24_AsStated ==
    /\ KeptScalars(last.pre, self)
    /\ KeptLists(last.pre, self)
    /\ KeptDicts(last.pre, self)

\* every cache but those of waivers and taken_players keeps what it holds
C24_OthersKept == KeptScalars(last.pre, self) /\ KeptDicts(last.pre, self)

----------------------------------------------------------------------------
(* Properties of the records of a page (SpecPage) *)

\* the player of the remote list that record r was made of
WireOf(r) ==
    WirePlayer(Roster(last.rem), LastStatus, LastPosition,
               r.player_id - IdBase(LastStatus, LastPosition))

\* C25: every record a page-based fetch returns has the player's ID as an
\* integer and a status, the empty string when the wire record has none and
\* the wire status otherwise, never "NA"; each request starts at the sum of
\* the players the pages before it reported, the NA players among them.
C25_RecordFields ==
    Fetched =>
        /\ \A i \in 1 .. Len(last.ret) :
              LET r == last.ret[i]
              IN  /\ r.player_id \in Nat
                  /\ str(r.player_id) = WireOf(r).fields.player_id
                  /\ "status" \in DOMAIN r
                  /\ r.status # "NA"
                  /\ r.status = (IF "status" \in DOMAIN WireOf(r).fields
                                 THEN WireOf(r).fields.status ELSE "")
        /\ \A i \in 1 .. Len(last.reqs) :
              /\ last.reqs[i].arg[1] = SumReported(i - 1)
              /\ Yielded(i) <= Reported(i)

\* a fetch over a list with NA players on its first page: the page yields
\* fewer records than it reports, the second request starts at 25, and the
\* records hold an empty status and a wire status
C25_Witness ==
    /\ Fetched
    /\ Len(last.reqs) = 2
    /\ Reported(1) = 25
    /\ Yielded(1) < 25
    /\ last.reqs[2].arg[1] = 25
    /\ \E i \in 1 .. Len(last.ret) : last.ret[i].status = ""
    /\ \E i \in 1 .. Len(last.ret) : last.ret[i].status = "DTD"

\* the players of the page served for the i-th request, as the service
\* writes them
PageWire(i) == ServedPage(i).fantasy_content.league[2].players.player
\* the value of the ownership entry of wire player w, 0 when it carries none
EntryValue(w) ==
    IF \E e \in DOMAIN w.percent_owned : "value" \in DOMAIN w.percent_owned[e]
    THEN w.percent_owned[CHOOSE e \in DOMAIN w.percent_owned :
                             "value" \in DOMAIN w.percent_owned[e]].value
    ELSE 0
\* the k-th player of that page is not NA
ActiveOn(i, k) ==
    "status" \notin DOMAIN PageWire(i)[k].fields
        \/ PageWire(i)[k].fields.status # "NA"
ActiveCount(i) == Cardinality({k \in 1 .. Reported(i) : ActiveOn(i, k)})
RECURSIVE SumActive(_)
SumActive(i) == IF i = 0 THEN 0 ELSE ActiveCount(i) + SumActive(i - 1)

----------------------------------------------------------------------------
(* Properties of the keys of a stats row (SpecStats) *)

RowKeys == {"player_id", "name", "position_type"}
\* the stats the service reports for the player of row r
ReportedStats(r) == StatsPlayer(last.rem, r.player_id).player_stats.stats
MapOf(s) == Val(s.stats_id_map)
NamesOf(m) == {m[id] : id \in DOMAIN m}
ValueIn(st) ==
    IF float_raises(st.stat.value) THEN st.stat.value ELSE float(st.stat.value)
StatsReturned == IsStats /\ last.out = "ok"

\* every key of a row that is not one of the three fields of the player is a
\* display name of the map, and the row has a key for the display name of
\* every reported stat the map names
C27_KeysFromMap ==
    StatsReturned =>
        \A i \in 1 .. Len(last.ret) :
            LET r == last.ret[i]
            IN  /\ RowKeys \subseteq DOMAIN r
                /\ DOMAIN r \ RowKeys \subseteq NamesOf(MapOf(self))
                /\ \A j \in DOMAIN ReportedStats(r) :
                      LET id == int(ReportedStats(r)[j].stat.stat_id)
                      IN  id \in DOMAIN MapOf(self)
                              => MapOf(self)[id] \in DOMAIN r

\* C27 as stated: besides, every reported stat the map names is in the row
\* under its display name with its own value, so that no two reported stats
\* share a key.
C27_AsStated ==
    StatsReturned =>
        \A i \in 1 .. Len(last.ret) :
            LET r == last.ret[i]
            IN  /\ DOMAIN r \ RowKeys \subseteq NamesOf(MapOf(self))
                /\ \A j \in DOMAIN ReportedStats(r) :
                      LET st == ReportedStats(r)[j]
                          id == int(st.stat.stat_id)
                      IN  id \in DOMAIN MapOf(self)
                              => /\ MapOf(self)[id] \in DOMAIN r
                                 /\ r[MapOf(self)[id]] = ValueIn(st)

----------------------------------------------------------------------------
(* Properties of the fetch over pages of NA players (SpecPage) *)

\* the players of the remote list that are not NA, by their place in it
ActiveOfList ==
    {i \in 1 .. Roster(last.rem).n : ~IsNA(Roster(last.rem), i)}

\* C28 as stated: a fetch returns every player of the remote list whose
\* status is not NA.
C28_AsStated ==
    Fetched =>
        \A i \in ActiveOfList :
            \E k \in 1 .. Len(last.ret) :
                last.ret[k].player_id = IdBase(LastStatus, LastPosition) + i

\* a fetch returns every player that is not NA of a list in which no page
\* holds NA players only
C28_NoLossWithoutNAPage ==
    (Fetched /\ Roster(last.rem).na # "page") =>
        \A i \in ActiveOfList :
            \E k \in 1 .. Len(last.ret) :
                last.ret[k].player_id = IdBase(LastStatus, LastPosition) + i

-----------------------------------------------------------------------------
(* The fetch loops, one iteration a step (SpecLoop) *)

PageQueries == {<< "FA", Some("C") >>, << "W", None >>, << "T", None >>}

\* a loop is entered: one step of the behaviour
EnterLoop(l) ==
    /\ loop.pc = "idle"
    /\ steps > 0
    /\ steps' = steps - 1
    /\ loop' = l
    /\ UNCHANGED <<remote, last, hist, callers>>

\* an iteration of a running loop of the kind
Iterate(kind) ==
    /\ loop.pc = "running"
    /\ loop.kind = kind
    /\ UNCHANGED <<remote, last, hist, callers, steps>>

Done(l, out) == [l EXCEPT !.pc = "done", !.out = out]

\* _fetch_players(status, position) is entered: plyrs = [], plyrIndex = 0
StartFetch ==
    \E q \in PageQueries :
        /\ EnterLoop([NoLoop EXCEPT !.pc = "running", !.kind = "fetch",
                                    !.status = q[1], !.position = q[2]])
        /\ UNCHANGED self

\* the test of the loop of _fetch_players and, when it holds, its body
FetchPage ==
    /\ Iterate("fetch")
    /\ UNCHANGED self
    /\ IF loop.plyrIndex % PLAYERS_PER_PAGE # 0
       THEN loop' = Done(loop, "ok")
       ELSE IF Missing(self, RemoteAttrs)
       THEN loop' = Done(loop, "AttributeError")
       ELSE
       LET j == PlayersDoc(remote, loop.plyrIndex, loop.status, loop.position)
           pg == _players_from_page(j)
           asked == [loop EXCEPT !.nreq = @ + 1]
       IN  IF pg.out # "ok" THEN loop' = Done(asked, pg.out)
           ELSE IF Len(pg.fa) = 0 THEN loop' = Done(asked, "ok")
           ELSE loop' = [asked EXCEPT !.plyrs = @ \o pg.fa,
                                      !.plyrIndex = @ + pg.num]

\* _cache_player_details(player) is entered: the lookup is calculated
StartDetails ==
    \E player \in {AList(ids) : ids \in DetailLists}
                  \cup {AStr(x) : x \in MoreSearches} :
        /\ UNCHANGED self
        /\ IF Missing(self, {"player_details_cache"})
           THEN EnterLoop(Done(NoLoop, "AttributeError"))
           ELSE
           LET lookup == _calc_lookup_for_player_detail(self, player)
           IN  IF TypeOf(player) = "list"
               THEN EnterLoop([NoLoop EXCEPT !.pc = "running",
                                             !.kind = "details",
                                             !.lookup = lookup,
                                             !.total = Len(lookup)])
               ELSE EnterLoop([NoLoop EXCEPT !.pc = "running",
                                             !.kind = "search",
                                             !.search = lookup])

\* the test of the loop of _cache_player_details for a list of IDs and, when
\* it holds, its body: the last batch is taken off the lookup and fetched
DetailsBatch ==
    /\ Iterate("details")
    /\ IF Len(loop.lookup) = 0
       THEN loop' = Done(loop, "ok") /\ UNCHANGED self
       ELSE IF Missing(self, RemoteAttrs)
       THEN loop' = Done(loop, "AttributeError") /\ UNCHANGED self
       ELSE
       LET ids == loop.lookup[Len(loop.lookup)]
           j == PlayerDoc(remote, ExistingOf(ids))
       IN  /\ self' = [self EXCEPT !.player_details_cache.ids =
                                       CacheById(@, DetailsOfDoc(j))]
           /\ loop' = [loop EXCEPT
                         !.lookup = SubSeq(@, 1, Len(@) - 1),
                         !.nreq = @ + 1]

\* the test of the loop of _cache_player_details for a search and, when it
\* holds, its body: the search is run and the lookup is set to None
SearchOnce ==
    /\ Iterate("search")
    /\ IF loop.search = None
       THEN loop' = Done(loop, "ok") /\ UNCHANGED self
       ELSE IF Missing(self, RemoteAttrs)
       THEN loop' = Done(loop, "AttributeError") /\ UNCHANGED self
       ELSE
       LET key == Val(loop.search)
           details == DetailsOfDoc(PlayerDoc(remote, SearchHits(key)))
       IN  /\ self' = IF details = << >> THEN self
                      ELSE [self EXCEPT !.player_details_cache.search =
                                            SetItem(@, key, details)]
           /\ loop' = [loop EXCEPT !.search = None, !.nreq = @ + 1]

\* player_stats(player_ids, ...) up to its loop: the settings and the map of
\* stat names are there, the IDs are pending
StartStats ==
    \E ids \in StatsLists :
        LET lg == settings(self, remote, 0, << >>)
            m == IF lg.out = "ok" /\ "game_code" \in DOMAIN lg.ret
                 THEN _cache_stats_id_map(lg.self, remote, 0, lg.reqs,
                                          lg.ret.game_code)
                 ELSE lg
        IN  /\ self' = m.self
            /\ IF lg.out # "ok" THEN EnterLoop(Done(NoLoop, lg.out))
               ELSE IF "game_code" \notin DOMAIN lg.ret
               THEN EnterLoop(Done(NoLoop, "KeyError"))
               ELSE IF m.out # "ok" THEN EnterLoop(Done(NoLoop, m.out))
               ELSE EnterLoop([NoLoop EXCEPT !.pc = "running",
                                             !.kind = "stats",
                                             !.player_ids = ids,
                                             !.total = Len(ids)])

\* the test of the loop of player_stats and, when it holds, its body: the
\* first 25 IDs are taken off the list and their stats are fetched
StatsChunk ==
    /\ Iterate("stats")
    /\ UNCHANGED self
    /\ IF Len(loop.player_ids) = 0
       THEN loop' = Done(loop, "ok")
       ELSE
       LET next_player_ids ==
               SubSeq(loop.player_ids, 1, Min(25, Len(loop.player_ids)))
           j == StatsDoc(remote, next_player_ids)
       IN  loop' = [loop EXCEPT
                      !.player_ids =
                          SubSeq(@, Len(next_player_ids) + 1, Len(@)),
                      !.stats = @ \o StatRows(
                                         StatEntries(j.fantasy_content.players),
                                         Val(self.stats_id_map)),
                      !.nreq = @ + 1]

\* the method returns (or raises)
Return ==
    /\ loop.pc = "done"
    /\ loop' = NoLoop
    /\ UNCHANGED <<self, remote, last, hist, callers, steps>>

InitLoop ==
    /\ self \in InitialObjects
    /\ \E n \in DOMAIN Scenarios :
           remote = [rev |-> 0, week |-> 1, game |-> "nhl", scn |-> n]
    /\ last = NoCall
    /\ hist = NoHist
    /\ callers = NoCallers
    /\ loop = NoLoop
    /\ steps = MaxOps - 2

NextLoop ==
    \/ StartFetch
    \/ FetchPage
    \/ StartDetails
    \/ DetailsBatch
    \/ SearchOnce
    \/ StartStats
    \/ StatsChunk
    \/ Return

SpecLoop == InitLoop /\ [][NextLoop]_vars

-----------------------------------------------------------------------------
(* Properties of the loops (SpecLoop) *)

\* the requests a loop of the kind may have issued by now
PageBound == Roster(remote).n \div PLAYERS_PER_PAGE + 1

LoopBounds ==
    /\ loop.kind = "fetch" => loop.nreq <= PageBound
    /\ loop.kind = "details" => loop.nreq + Len(loop.lookup) = loop.total
    /\ loop.kind = "search" =>
           loop.nreq + (IF loop.search = None THEN 0 ELSE 1) <= 1
    /\ loop.kind = "stats" =>
           loop.nreq = (loop.total - Len(loop.player_ids) + 24) \div 25

\* what is left for a running loop to do: the requests the loop over the
\* pages may still issue, the batches of the pending lookup, the pending
\* search, the pending IDs
Variant ==
    IF loop.kind = "fetch" THEN PageBound - loop.nreq
    ELSE IF loop.kind = "details" THEN Len(loop.lookup)
    ELSE IF loop.kind = "search" THEN (IF loop.search = None THEN 0 ELSE 1)
    ELSE IF loop.kind = "stats" THEN Len(loop.player_ids)
    ELSE 0

\* an iteration after which the loop is still running has issued one request
\* and has left less to do
Decreases ==
    (loop.pc = "running" /\ loop'.pc = "running") =>
        /\ loop'.nreq = loop.nreq + 1
        /\ Variant' < Variant
        /\ Variant' >= 0

\* C29: every fetch loop terminates when each remote call returns: the loop
\* over the pages stops after at most floor(N/25) + 1 requests for a list of N
\* players, every iteration of the loop of _cache_player_details takes one
\* batch off the pending lookup (or clears the pending search), every
\* iteration of the loop of player_stats takes a batch off the pending IDs,
\* so that what is left to do, never negative, gets less with every iteration
C29_LoopsTerminate ==
    /\ []LoopBounds
    /\ [][Decreases]_vars

\* a loop over the pages that is done has issued the requests, and has
\* collected the players, of a call of _fetch_players
LoopAgrees ==
    (loop.pc = "done" /\ loop.kind = "fetch") =>
        LET f == _fetch_players(self, remote, 0, << >>, loop.status,
                                loop.position, "loop")
        IN  /\ f.out = loop.out
            /\ Len(f.reqs) = loop.nreq
            /\ f.out = "ok" => f.ret = loop.plyrs

\* the loop over the pages is done after floor(N/25) + 1 requests, the second
\* of which fetched a page shorter than 25 players
C29_Witness ==
    /\ loop.pc = "done"
    /\ loop.kind = "fetch"
    /\ loop.out = "ok"
    /\ Roster(remote).n = RemotePageSize + Short
    /\ loop.nreq = 2
    /\ loop.nreq = PageBound

\* the loop of _cache_player_details is done after three batches
C29_WitnessDetails ==
    /\ loop.pc = "done"
    /\ loop.kind = "details"
    /\ loop.total = 3
    /\ loop.nreq = 3
    /\ loop.lookup = << >>

-----------------------------------------------------------------------------
(* The cached accessors, a request of theirs failing (SpecFailing) *)

\* the call of method op with arguments arg on object s
CallOf(op, arg, s, rem, fail) ==
    IF op = "current_week" THEN current_week(s, rem, fail, << >>)
    ELSE IF op = "end_week" THEN end_week(s, rem, fail, << >>)
    ELSE IF op = "week_date_range" THEN week_date_range(s, rem, fail, arg[1])
    ELSE IF op = "settings" THEN settings(s, rem, fail, << >>)
    ELSE IF op = "stat_categories" THEN stat_categories(s, rem, fail, << >>)
    ELSE IF op = "edit_date" THEN edit_date(s, rem, fail, << >>)
    ELSE IF op = "positions" THEN positions(s, rem, fail, << >>)
    ELSE IF op = "free_agents" THEN free_agents(s, rem, fail, << >>, arg[1])
    ELSE IF op = "waivers" THEN waivers(s, rem, fail, << >>)
    ELSE IF op = "taken_players" THEN taken_players(s, rem, fail, << >>)
    ELSE IF op = "player_details"
    THEN player_details(s, rem, fail, << >>, arg[1])
    ELSE player_stats(s, rem, fail, << >>, arg[1])

\* the request that gets the error payload: none, the first or a later one
FailLate == 0 .. MaxFailAt + 1

\* a call of method op, the handler H run with a request of its failing
Failing(op, arg, H(_)) ==
    \E fail \in FailLate : Call(op, arg, fail, H(fail), TRUE)

InitFailing ==
    /\ self \in InitialObjects
    /\ \E n \in {1, 4} :
           remote = [rev |-> 0, week |-> 1, game |-> "nhl", scn |-> n]
    /\ last = NoCall
    /\ hist = NoHist
    /\ callers = NoCallers
    /\ loop = NoLoop
    /\ steps = AllOps

\* every scalar accessor, a position, a week, a search and a list of IDs
\* fetched in two batches
NextFailing ==
    \/ Failing("current_week", << >>,
               LAMBDA f : current_week(self, remote, f, << >>))
    \/ Failing("end_week", << >>,
               LAMBDA f : end_week(self, remote, f, << >>))
    \/ Failing("week_date_range", << 1 >>,
               LAMBDA f : week_date_range(self, remote, f, 1))
    \/ Failing("settings", << >>,
               LAMBDA f : settings(self, remote, f, << >>))
    \/ Failing("stat_categories", << >>,
               LAMBDA f : stat_categories(self, remote, f, << >>))
    \/ Failing("edit_date", << >>,
               LAMBDA f : edit_date(self, remote, f, << >>))
    \/ Failing("positions", << >>,
               LAMBDA f : positions(self, remote, f, << >>))
    \/ Failing("free_agents", << "C" >>,
               LAMBDA f : free_agents(self, remote, f, << >>, "C"))
    \/ Failing("waivers", << >>,
               LAMBDA f : waivers(self, remote, f, << >>))
    \/ Failing("taken_players", << >>,
               LAMBDA f : taken_players(self, remote, f, << >>))
    \/ Failing("player_details", << AStr("Phil") >>,
               LAMBDA f : player_details(self, remote, f, << >>, AStr("Phil")))
    \/ Failing("player_details", << AList(RepeatList) >>,
               LAMBDA f : player_details(self, remote, f, << >>,
                                         AList(RepeatList)))
    \/ RemoteChange

SpecFailing == InitFailing /\ [][NextFailing]_vars

-----------------------------------------------------------------------------
(* Properties of failed requests (SpecFailing) *)

FailedReq == last.reqs[last.err]

AtKey(d, k) == IF k \in DOMAIN d THEN Some(d[k]) ELSE None

IdSet(ids) == {ids[i] : i \in DOMAIN ids}

\* the IDs the requests of the call asked for before the failed one
EarlierIds ==
    UNION {IdSet(last.reqs[i].arg[2]) :
              i \in {j \in 1 .. last.err - 1 : last.reqs[j].api = "player"}}

\* what object s holds under the key request req was to fill: the scalar
\* cache, the entry of the position, of the week or of the search, the IDs of
\* the batch (but those an earlier request of the call asked for) that are in
\* the cache; None when it holds nothing (and for a request of player_stats,
\* which has no cache)
Held(s, req) ==
    LET m == req.by[1]
    IN  IF m = "current_week" THEN s.current_week_cache
        ELSE IF m = "end_week" THEN s.end_week_cache
        ELSE IF m = "week_date_range"
        THEN AtKey(s.week_date_range_cache, req.by[2][1])
        ELSE IF m = "settings" THEN s.settings_cache
        ELSE IF m = "stat_categories" THEN s.stat_categories_cache
        ELSE IF m = "edit_date" THEN s.edit_date_cache
        ELSE IF m = "positions" THEN s.positions_cache
        ELSE IF m = "free_agents"
        THEN AtKey(s.free_agent_cache, req.by[2][1])
        ELSE IF m = "waivers" THEN s.waivers_cache
        ELSE IF m = "taken_players" THEN s.taken_players_cache
        ELSE IF m = "_cache_stats_id_map" THEN s.stats_id_map
        ELSE IF m = "player_details" /\ req.arg[1] = "search"
        THEN AtKey(s.player_details_cache.search, req.arg[2])
        ELSE IF m = "player_details"
        THEN LET cached == (IdSet(req.arg[2]) \ EarlierIds)
                               \cap DOMAIN s.player_details_cache.ids
             IN  IF cached = {} THEN None ELSE Some(cached)
        ELSE None

\* the accessor takes what is held for not computed yet
NotComputed(req, held) ==
    \/ held = None
    \/ req.by[1] \in {"waivers", "taken_players"} /\ Val(held) = << >>

\* the same call once more, on the object as the failed call left it, every
\* request answered
Again == CallOf(last.op, last.arg, self, last.rem, 0)

\* C30: when a request of an accessor gets a transport error, nothing is
\* stored under the key the request was to fill (the scalar cache is still
\* not computed, the position, week or search is still absent, the IDs of the
\* batch are still not in the cache, also when earlier requests of the call
\* were answered), and the same call made again issues a request of the same
\* accessor code instead of returning a value
C30_NothingStoredOnError ==
    last.err > 0 =>
        /\ Held(self, FailedReq) = Held(last.pre, FailedReq)
        /\ NotComputed(FailedReq, Held(self, FailedReq))
        /\ \E i \in DOMAIN Again.reqs :
               /\ Again.reqs[i].api = FailedReq.api
               /\ Again.reqs[i].by = FailedReq.by

\* free_agents: the first page was answered, the request of the second page
\* got the error; the position is not in the cache and the call made again
\* fetches both pages and returns the 35 players
C30_Witness ==
    /\ last.op = "free_agents"
    /\ last.err = 2
    /\ last.out = "RuntimeError"
    /\ "C" \notin DOMAIN self.free_agent_cache
    /\ Len(Again.reqs) = 2
    /\ Again.out = "ok"
    /\ Len(Again.ret) = RemotePageSize + Short

\* week_date_range: the current week was fetched and stored, the request of
\* the week got the error and the week is not in the cache
C30_WitnessWeek ==
    /\ last.op = "week_date_range"
    /\ last.err = 2
    /\ last.pre.current_week_cache = None
    /\ self.current_week_cache # None
    /\ 1 \notin DOMAIN self.week_date_range_cache

\* player_details: the first batch was fetched and stored, the request of the
\* second batch got the error
C30_WitnessBatch ==
    /\ last.op = "player_details"
    /\ last.err = 2
    /\ self.player_details_cache.ids # last.pre.player_details_cache.ids

-----------------------------------------------------------------------------
(* The frame of free_agents (SpecAll) *)

AskedPosition == last.arg[1]

\* the entries of the free-agent cache but the one of position p
OtherPositions(cache, p) == [q \in DOMAIN cache \ {p} |-> cache[q]]

\* the call found the position in the cache
CacheHit == AskedPosition \in DOMAIN last.pre.free_agent_cache

\* C31: free_agents(position) changes at most the entry of the position in
\* the free-agent cache: the entries of the other positions, every other
\* cache and every other attribute of the object are as before the call,
\* and a call that finds the position in the cache changes nothing and
\* issues no request.
C31_FreeAgentsFrame ==
    IsCall("free_agents") =>
        /\ [self EXCEPT !.free_agent_cache = last.pre.free_agent_cache]
               = last.pre
        /\ OtherPositions(self.free_agent_cache, AskedPosition)
               = OtherPositions(last.pre.free_agent_cache, AskedPosition)
        /\ CacheHit => self = last.pre /\ last.reqs = << >>

\* free_agents("LW") fetched and stored its list on an object that held the
\* list of position C
C31_Witness ==
    /\ IsCall("free_agents")
    /\ AskedPosition = "LW"
    /\ last.out = "ok"
    /\ last.reqs # << >>
    /\ DOMAIN last.pre.free_agent_cache = {"C"}
    /\ DOMAIN self.free_agent_cache = {"C", "LW"}
    /\ Len(self.free_agent_cache["C"]) = RemotePageSize + Short

\* free_agents fetched a list on an object that held other caches
C31_WitnessOthers ==
    /\ IsCall("free_agents")
    /\ last.out = "ok"
    /\ ~CacheHit
    /\ \/ last.pre.waivers_cache # None
       \/ last.pre.settings_cache # None
       \/ last.pre.week_date_range_cache # EmptyDict

\* free_agents found the position in the cache
C31_WitnessHit ==
    /\ IsCall("free_agents")
    /\ CacheHit
    /\ last.out = "ok"
    /\ last.ret = last.pre.free_agent_cache[AskedPosition]

-----------------------------------------------------------------------------
(* A Player context as its constructor leaves it (SpecFresh) *)

\* inject_yhandler(self, yhandler)
inject_yhandler(s) == [s EXCEPT !.attrs = @ \cup {"yhandler"}]

InjectYhandler ==
    /\ steps > 0
    /\ steps' = steps - 1
    /\ self' = inject_yhandler(self)
    /\ last' = [NoCall EXCEPT !.op = "inject_yhandler"]
    /\ UNCHANGED <<remote, hist, callers, loop>>

\* Player(player): Player.__init__ has run, and no other initializer
InitFresh ==
    /\ self = Player__init__(Blank)
    /\ remote = [rev |-> 0, week |-> 1, game |-> "nhl", scn |-> 1]
    /\ last = NoCall
    /\ hist = NoHist
    /\ callers = NoCallers
    /\ loop = NoLoop
    /\ steps = MaxOps - 1

NextFresh ==
    \/ InjectYhandler
    \/ PlayerDetails
    \/ PlayerStats
    \/ RemoteChange

SpecFresh == InitFresh /\ [][NextFresh]_vars

-----------------------------------------------------------------------------
(* Properties of a fresh Player context (SpecFresh) *)

\* the fields player_details and player_stats read
FieldsRead ==
    {"league_id", "yhandler", "settings_cache", "stats_id_map",
     "player_details_cache"}

IsPlayerCall == IsCall("player_details") \/ IsCall("player_stats")

\* C32 as stated: on a Player context as its constructor leaves it, with or
\* without inject_yhandler after it, every field player_details and
\* player_stats read is there, and a call reaches its remote request: it does
\* not raise AttributeError.
C32_AsStated ==
    IsPlayerCall =>
        /\ FieldsRead \subseteq last.pre.attrs
        /\ last.out # "AttributeError"

\* what the constructor leaves: of the fields read, player_details_cache
\* (and yhandler once it is injected); every call of player_details and of
\* player_stats raises AttributeError before any request and stores nothing
C32_FreshPlayerRaises ==
    /\ FieldsRead \cap self.attrs \subseteq {"player_details_cache", "yhandler"}
    /\ IsPlayerCall =>
           /\ last.out = "AttributeError"
           /\ last.reqs = << >>
           /\ self = last.pre

\* player_details raised AttributeError on a Player context with a handler
\* injected
C32_WitnessInjected ==
    /\ IsCall("player_details")
    /\ "yhandler" \in last.pre.attrs
    /\ last.out = "AttributeError"

============================================================================
